---------------------------- MODULE Spec2Model ----------------------------
(***************************************************************************)
(* Verification model of the adversarial sequence-generation training      *)
(* engine (keystroke-timing GAN and mouse-trajectory GAN).                 *)
(*                                                                         *)
(* Conventions                                                             *)
(*  - Durations are integers in milliseconds (0.001 s = 1, 0.005 s = 5).   *)
(*  - Positions are points <<x, y>> of an integer grid; the grid unit      *)
(*    stands for the unit in which distance_threshold is expressed.        *)
(*  - A learned layer (Linear / LayerNorm / LSTM stacks) cannot be         *)
(*    evaluated symbolically.  It is modelled by Net, a fixed              *)
(*    deterministic function of the layer's weights and of exactly the     *)
(*    inputs the code feeds it, with values in a finite ring.  What is     *)
(*    kept is the data dependence: which values can influence which.       *)
(*  - Sequences of a batch are indexed 1..BatchSize, time steps 1..T       *)
(*    (the code's step t is step t+1 here).                                *)
(***************************************************************************)
EXTENDS Integers, Sequences, FiniteSets, TLC

(***************************************************************************)
(* Bounds of the model                                                     *)
(***************************************************************************)
BatchSize == 2
MaxGenSteps == 4

Batch == 1..BatchSize

(***************************************************************************)
(* Size of the ring in which hidden states and layer outputs live          *)
(* (stands for R^generator_hidden_dim).                                    *)
(***************************************************************************)
GenHidden == 9

VARIABLES
    gen,      \* one call of the trajectory Generator.generate, its locals
    trainer,  \* the Trainer object: its fields
    run,      \* one call of Trainer.train: its locals and position
    env,      \* what Trainer.train is called with: dataloader, arguments
    files,    \* the checkpoint files on disk: path -> checkpoint
    dirs,     \* the directories that exist on disk
    snap      \* history: path -> the Trainer as it was when path was saved

vars == <<gen, trainer, run, env, files, dirs, snap>>
trainVars == <<trainer, run, env, files, dirs, snap>>

(***************************************************************************)
(* Small vector helpers                                                    *)
(***************************************************************************)
RECURSIVE SumSeq(_)
SumSeq(s) == IF s = <<>> THEN 0 ELSE Head(s) + SumSeq(Tail(s))

Add2(p, q) == <<p[1] + q[1], p[2] + q[2]>>
Sub2(p, q) == <<p[1] - q[1], p[2] - q[2]>>

\* ((v ** 2).sum(dim=-1)): the squared Euclidean norm
SqNorm(v) == v[1] * v[1] + v[2] * v[2]

\* torch.atan2(dy, dx), kept up to the octant of the direction
Sign(x) == IF x > 0 THEN 1 ELSE IF x < 0 THEN -1 ELSE 0
atan2(dy, dx) == 3 * (Sign(dy) + 1) + (Sign(dx) + 1)

\* A learned layer with weights w applied to the input vector xs
Net(w, xs) ==
    (w + SumSeq([k \in 1..Len(xs) |-> (k + 1) * xs[k]])) % GenHidden

\* F.softplus on a quantised raw output, in milliseconds.  Raw values at or
\* below -3 stand for the range in which float32 exp() underflows and
\* softplus returns exactly 0.
softplus(x) ==
    IF x <= -3 THEN 0
    ELSE IF x = -2 THEN 127
    ELSE IF x = -1 THEN 313
    ELSE IF x = 0 THEN 693
    ELSE 1000 * x + 313

(***************************************************************************)
(* Trajectory generator: mouse_trajectory_gan/models/generator.py          *)
(***************************************************************************)
\* Generator._compute_condition applied to one sequence
compute_condition(w, start, end, z) ==
    LET diff == Sub2(end, start)
        distance == SqNorm(diff)
        angle == atan2(diff[2], diff[1])
    IN  Net(w, <<start[1], start[2], end[1], end[2], distance, angle, z>>)

\* Generator._compute_dynamic_features applied to one sequence
compute_dynamic_features(current_pos, end) ==
    LET remaining == Sub2(end, current_pos)
        remaining_dist == SqNorm(remaining)
        remaining_angle == atan2(remaining[2], remaining[1])
    IN  <<remaining[1], remaining[2], remaining_dist, remaining_angle>>

\* self.lstm(lstm_input, (h, c)): the new recurrent state of one sequence
lstm(w, h, current_input, condition, dynamic_feat) ==
    Net(w, <<h>> \o current_input \o <<condition>> \o dynamic_feat)

\* self.output_layer(lstm_out): raw (dx, dy, dt) of one sequence
output_layer(w, lstm_out) ==
    LET v == (lstm_out + w) % GenHidden
    IN  <<(v % 3) - 1, ((v \div 3) % 3) - 1, (lstm_out % 5) - 3>>

\* Minimum dt added after softplus: 0.001 s
DtFloor == 1

\* torch.cat([output[:, :, :2], F.softplus(output[:, :, 2:3]) + 0.001])
positive_dt(output) ==
    <<output[1], output[2], softplus(output[3]) + DtFloor>>

\* One decoding step of one sequence: (h', emitted step)
decode(w, h, current_input, condition, current_pos, end) ==
    LET dynamic_feat == compute_dynamic_features(current_pos, end)
        lstm_out == lstm(w, h, current_input, condition, dynamic_feat)
    IN  [h |-> lstm_out, output |-> positive_dt(output_layer(w, lstm_out))]

\* distance_to_end < self.config.distance_threshold, with
\* distance_to_end = sqrt(((current_pos - end) ** 2).sum())
WithinThreshold(current_pos, end, distance_threshold) ==
    /\ distance_threshold > 0
    /\ SqNorm(Sub2(current_pos, end)) < distance_threshold * distance_threshold

\* torch.tensor(t + 1): the length recorded at the code's step index t
RecordedLengthOffByOne(t) == t
RecordedLength(t) == t + 1

\* newly_done & ~done: the sequences whose length is written at this step
RecordMaskOverwrite(newly_done, done) == newly_done
RecordMask(newly_done, done) == newly_done /\ ~done

\* "if done.all(): break"
AnyDone(done) == \E i \in DOMAIN done : done[i]
AllDone(done) == \A i \in DOMAIN done : done[i]

\* self.initial_input: the learnable initial token (zeros at construction)
initial_input == <<0, 0, 0>>

\* The inputs of the model: generator weights, latent draws, normalised
\* start and end points, and values of config.distance_threshold (0 stands
\* for a threshold no position can be within)
Weights == {0, 1, 2}
Latents == {0, 1}
StartPoints == {<<0, 0>>, <<1, 0>>}
EndPoints == {<<1, 1>>, <<0, 2>>}
Thresholds == {0, 1, 2}

\* State at line 213 of Generator.generate, for every input of the bounds
GenerateInit ==
    /\ trainer = [epoch |-> 0] /\ run = [pc |-> "none"]
    /\ env = [num_epochs |-> 0] /\ files = <<>> /\ dirs = {} /\ snap = <<>>
    /\ \E w \in Weights, th \in Thresholds,
          start \in [Batch -> StartPoints], end \in [Batch -> EndPoints],
          z \in [Batch -> Latents] :
        gen = [pc |-> "loop",
               w |-> w,
               distance_threshold |-> th,
               start |-> start,
               end |-> end,
               condition |-> [i \in Batch |->
                                compute_condition(w, start[i], end[i], z[i])],
               h |-> [i \in Batch |-> 0],
               current_input |-> [i \in Batch |-> initial_input],
               current_pos |-> start,
               done |-> [i \in Batch |-> FALSE],
               lengths |-> [i \in Batch |-> 0],
               outputs |-> [i \in Batch |-> <<>>],
               t |-> 0]

\* One iteration of "for t in range(self.config.max_generation_steps)"
\* (lines 215-246); gen.t is the code's t of the iteration.
GenerateStep ==
    /\ UNCHANGED trainVars
    /\ gen.pc = "loop"
    /\ gen.t < MaxGenSteps
    /\ LET step == [i \in DOMAIN gen.done |->
                      decode(gen.w, gen.h[i], gen.current_input[i],
                             gen.condition[i], gen.current_pos[i], gen.end[i])]
           pos == [i \in DOMAIN gen.done |->
                      Add2(gen.current_pos[i],
                           <<step[i].output[1], step[i].output[2]>>)]
           newly_done == [i \in DOMAIN gen.done |->
                      WithinThreshold(pos[i], gen.end[i],
                                      gen.distance_threshold)]
           done == [i \in DOMAIN gen.done |-> gen.done[i] \/ newly_done[i]]
       IN  gen' = [gen EXCEPT
                !.h = [i \in DOMAIN gen.done |-> step[i].h],
                !.outputs = [i \in DOMAIN gen.done |->
                                Append(gen.outputs[i], step[i].output)],
                !.current_input = [i \in DOMAIN gen.done |-> step[i].output],
                !.current_pos = pos,
                !.lengths = [i \in DOMAIN gen.done |->
                                IF RecordMask(newly_done[i], gen.done[i])
                                THEN RecordedLength(gen.t)
                                ELSE gen.lengths[i]],
                !.done = done,
                \* "break" leaves t at this iteration; otherwise the loop
                \* advances, or ends with t at the last iteration
                !.t = IF AllDone(done) \/ gen.t + 1 = MaxGenSteps
                      THEN gen.t ELSE gen.t + 1,
                !.pc = IF AllDone(done) \/ gen.t + 1 = MaxGenSteps
                       THEN "after" ELSE "loop"]

\* Lines 248-254: lengths of the sequences that never reached the threshold
GenerateReturn ==
    /\ UNCHANGED trainVars
    /\ gen.pc = "after"
    /\ gen' = [gen EXCEPT
                !.lengths = [i \in DOMAIN gen.done |->
                                IF gen.lengths[i] = 0
                                THEN gen.t + 1 ELSE gen.lengths[i]],
                !.pc = "returned"]

GenerateNext ==
    \/ GenerateStep
    \/ GenerateReturn

SpecGenerate == GenerateInit /\ [][GenerateNext]_vars

(***************************************************************************)
(* Keystroke generator: keyboard_dynamics_gan/models/generator.py          *)
(***************************************************************************)
\* self.char_embedding(char_ids) for one character
char_embedding(w, char_id) == Net(w, <<char_id>>)

\* self.condition_encoder(z) for one sequence
condition_encoder(w, z) == Net(w, <<z>>)

\* self.output_layer(lstm_out): raw (hold, flight) of one sequence
timing_output_layer(w, lstm_out) ==
    LET v == (lstm_out + w) % GenHidden
    IN  <<(v % 5) - 3, ((v \div 2) % 5) - 3>>

\* Minimum hold and flight added after softplus: 0.005 s
TimingFloor == 5

\* F.softplus(output) + 0.005 on both channels
positive_timing(output) ==
    <<softplus(output[1]) + TimingFloor, softplus(output[2]) + TimingFloor>>

\* One decoding step of one sequence: (h', emitted step)
decode_timing(w, h, char_id, condition, prev_timing) ==
    LET lstm_out == Net(w, <<h, char_embedding(w, char_id), condition>>
                           \o prev_timing)
    IN  [h |-> lstm_out,
         output |-> positive_timing(timing_output_layer(w, lstm_out))]

\* self.initial_timing: the learnable initial token (zeros at construction)
initial_timing == <<0, 0>>

(***************************************************************************)
(* Generator.forward of both generators.  A batch is a function on Batch;  *)
(* a padded sequence is a tuple of max_len steps.                          *)
(***************************************************************************)
\* Widest padded batch of the model
MaxWidth == 3

\* The recorded keystrokes of sequence i: character id and (hold, flight)
\* in ms of its k-th keystroke
RecordedChar(i, k) == ((i + k) % 2) + 1
RecordedTiming(i, k) == <<80 + 20 * ((i + k) % 2), 40 * ((i + k) % 3)>>

\* The recorded trajectory of sequence i: its end points and the
\* (dx, dy, dt) of its k-th movement
RecordedStart(i) == <<i % 2, 0>>
RecordedEnd(i) == IF i % 2 = 1 THEN <<1, 1>> ELSE <<0, 2>>
RecordedMove(i, k) == <<((i + k) % 3) - 1, k % 2, 8 + 4 * (i % 2)>>

\* pad_sequence(..., batch_first=True, padding_value=pad): the recording of
\* sequence i of true length len, right-padded to width
PaddedChars(i, len, width) ==
    [k \in 1..width |-> IF k <= len THEN RecordedChar(i, k) ELSE 0]
PaddedTimings(i, len, width, pad) ==
    [k \in 1..width |-> IF k <= len THEN RecordedTiming(i, k) ELSE pad]
PaddedMoves(i, len, width, pad) ==
    [k \in 1..width |-> IF k <= len THEN RecordedMove(i, k) ELSE pad]

\* "torch.rand(1).item() < teacher_forcing_ratio" (ratio in thousandths):
\* the outcomes the draw can have.  Without a target the test is not made.
ForcedChoices(has_target, ratio) ==
    IF ~has_target \/ ratio <= 0 THEN {FALSE}
    ELSE IF ratio >= 1000 THEN {TRUE}
    ELSE {TRUE, FALSE}

\* start + target_sequences[:, 0..t, :2] summed (lines 156-158), t 0-based
RECURSIVE ForcedPosition(_, _, _)
ForcedPosition(start, target, t) ==
    IF t < 0 THEN start
    ELSE Add2(ForcedPosition(start, target, t - 1),
              <<target[t + 1][1], target[t + 1][2]>>)

\* outputs.append(output): the step that is emitted at an iteration
EmittedForced(output, target_t, forced) ==
    IF forced THEN target_t ELSE output
Emitted(output, target_t, forced) == output

\* Recurrent state of one sequence before the loop
ForwardStateAtOrigin(variant, start) ==
    [h |-> 0,
     input |-> IF variant = "keystroke" THEN initial_timing ELSE initial_input,
     pos |-> <<0, 0>>,
     outputs |-> <<>>]
ForwardState(variant, start) ==
    [h |-> 0,
     input |-> IF variant = "keystroke" THEN initial_timing ELSE initial_input,
     pos |-> start,
     outputs |-> <<>>]

\* Iteration t (0-based) of the loop of forward for one sequence s with
\* context c; target is the padded target or <<>>
ForwardStepOfNoRecompute(variant, w, c, s, t, target, forced) ==
    LET d == IF variant = "keystroke"
             THEN decode_timing(w, s.h, c.char_ids[t + 1], c.condition,
                                s.input)
             ELSE decode(w, s.h, s.input, c.condition, s.pos, c.end)
    IN  [h |-> d.h,
         outputs |-> Append(s.outputs, d.output),
         input |-> IF forced THEN target[t + 1] ELSE d.output,
         pos |-> IF variant = "keystroke" THEN s.pos
                 ELSE Add2(s.pos, <<d.output[1], d.output[2]>>)]
ForwardStepOf(variant, w, c, s, t, target, forced) ==
    LET d == IF variant = "keystroke"
             THEN decode_timing(w, s.h, c.char_ids[t + 1], c.condition,
                                s.input)
             ELSE decode(w, s.h, s.input, c.condition, s.pos, c.end)
        target_t == IF forced THEN target[t + 1] ELSE d.output
    IN  [h |-> d.h,
         outputs |-> Append(s.outputs, Emitted(d.output, target_t, forced)),
         input |-> IF forced THEN target_t ELSE d.output,
         pos |-> IF variant = "keystroke" THEN s.pos
                 ELSE IF forced THEN ForcedPosition(c.start, target, t)
                 ELSE Add2(s.pos, <<d.output[1], d.output[2]>>)]

\* "for t in range(max_len)": the number of iterations of the loop
LoopBoundTrueLength(max_len, has_lengths, lengths) ==
    IF has_lengths
    THEN CHOOSE m \in 1..max_len :
            /\ \E i \in DOMAIN lengths : lengths[i] = m
            /\ \A i \in DOMAIN lengths : lengths[i] <= m
    ELSE max_len
LoopBound(max_len, has_lengths, lengths) == max_len

\* The context of sequence i that forward receives
ForwardContext(variant, w, i, len, width) ==
    IF variant = "keystroke"
    THEN [char_ids |-> PaddedChars(i, len, width),
          condition |-> condition_encoder(w, i % 2)]
    ELSE [start |-> RecordedStart(i),
          end |-> RecordedEnd(i),
          condition |-> compute_condition(w, RecordedStart(i),
                                          RecordedEnd(i), i % 2)]

\* The padded target of sequence i
ForwardTarget(variant, i, len, width, pad) ==
    IF variant = "keystroke" THEN PaddedTimings(i, len, width, pad)
    ELSE PaddedMoves(i, len, width, pad)

\* padding_value=0.0 of the collate functions
ZeroPad(variant) == IF variant = "keystroke" THEN <<0, 0>> ELSE <<0, 0, 0>>

\* Values of teacher_forcing_ratio (thousandths)
Ratios == {0, 500, 1000}

\* State before the loop of Generator.forward, for every call of the
\* bounds: with or without target, with or without lengths
ForwardInit ==
    /\ trainer = [epoch |-> 0] /\ run = [pc |-> "none"]
    /\ env = [num_epochs |-> 0] /\ files = <<>> /\ dirs = {} /\ snap = <<>>
    /\ \E variant \in {"keystroke", "trajectory"}, w \in {0, 1},
          ratio \in Ratios, has_target \in BOOLEAN, has_lengths \in BOOLEAN,
          width \in 1..MaxWidth :
        \E lengths \in [Batch -> 1..width] :
            gen = [pc |-> "forward",
                   variant |-> variant,
                   w |-> w,
                   teacher_forcing_ratio |-> ratio,
                   has_target |-> has_target,
                   has_lengths |-> has_lengths,
                   width |-> width,
                   lengths |-> lengths,
                   context |-> [i \in Batch |->
                       ForwardContext(variant, w, i, lengths[i], width)],
                   target |-> [i \in Batch |->
                       IF has_target
                       THEN ForwardTarget(variant, i, lengths[i], width,
                                          ZeroPad(variant))
                       ELSE <<>>],
                   max_len |-> IF variant = "keystroke" \/ has_target
                               THEN width ELSE MaxGenSteps,
                   state |-> [i \in Batch |->
                       ForwardState(variant, RecordedStart(i))],
                   forced |-> <<>>,
                   t |-> 0,
                   returned_lengths |-> <<>>]

\* One iteration of "for t in range(max_len)" of forward
ForwardStep ==
    /\ UNCHANGED trainVars
    /\ gen.pc = "forward"
    /\ gen.t < LoopBound(gen.max_len, gen.has_lengths, gen.lengths)
    /\ \E forced \in ForcedChoices(gen.has_target,
                                   gen.teacher_forcing_ratio) :
        gen' = [gen EXCEPT
                 !.state = [i \in DOMAIN gen.state |->
                     ForwardStepOf(gen.variant, gen.w, gen.context[i],
                                   gen.state[i], gen.t, gen.target[i],
                                   forced)],
                 !.forced = Append(gen.forced, forced),
                 !.t = gen.t + 1]

\* The end of forward: torch.cat(outputs) and the lengths that are returned
ForwardReturn ==
    /\ UNCHANGED trainVars
    /\ gen.pc = "forward"
    /\ gen.t >= LoopBound(gen.max_len, gen.has_lengths, gen.lengths)
    /\ gen' = [gen EXCEPT
                 !.pc = "forward_returned",
                 !.returned_lengths =
                     IF gen.has_lengths THEN gen.lengths
                     ELSE [i \in DOMAIN gen.state |-> gen.max_len]]

ForwardNext ==
    \/ ForwardStep
    \/ ForwardReturn

SpecForward == ForwardInit /\ [][ForwardNext]_vars

\* Every run of either generator: forward, and the trajectory generate
EmitInit == ForwardInit \/ GenerateInit
EmitNext == ForwardNext \/ GenerateNext
SpecEmit == EmitInit /\ [][EmitNext]_vars

(***************************************************************************)
(* Properties of Generator.forward and Generator.generate                  *)
(***************************************************************************)
InForward == gen.pc \in {"forward", "forward_returned"}
InGenerate == gen.pc \in {"loop", "after", "returned"}

\* The steps emitted so far for sequence i
EmittedSteps(i) ==
    IF InForward THEN gen.state[i].outputs ELSE gen.outputs[i]

\* C9: every emitted step of either generator has its duration channels at
\* or above the floor (hold and flight >= 5 ms for keystrokes, dt >= 1 ms
\* for trajectories), whatever the teacher-forcing draws were; a forced
\* draw puts the target step in the next input only.
C9_DurationFloor ==
    /\ \A i \in Batch : \A k \in 1..Len(EmittedSteps(i)) :
          LET step == EmittedSteps(i)[k]
          IN  IF InForward /\ gen.variant = "keystroke"
              THEN step[1] >= 5 /\ step[2] >= 5
              ELSE step[3] >= 1
    /\ InForward /\ gen.t > 0 =>
          \A i \in Batch :
              gen.state[i].input =
                  IF gen.forced[gen.t] THEN gen.target[i][gen.t]
                  ELSE gen.state[i].outputs[gen.t]

\* a keystroke forward that was forced at a padded step of a sequence (the
\* target there is zero) and emitted a hold exactly at the floor
C9_Witness ==
    /\ gen.pc = "forward_returned"
    /\ gen.variant = "keystroke"
    /\ \E i \in Batch : \E k \in 1..gen.t :
          /\ gen.forced[k] /\ gen.lengths[i] < k
          /\ gen.target[i][k] = <<0, 0>>
          /\ gen.state[i].outputs[k][1] >= 5
    /\ \E i \in Batch : \E k \in 1..gen.t : gen.state[i].outputs[k][1] = 5

\* The padded width forward was called with
CallWidth ==
    IF gen.variant = "keystroke" THEN Len(gen.context[1].char_ids)
    ELSE IF gen.has_target THEN Len(gen.target[1])
    ELSE MaxGenSteps

\* C10: forward returns exactly max_len steps for every sequence (the
\* padded width; max_generation_steps for a trajectory call without
\* target), and the caller's lengths unchanged, or max_len for every
\* sequence when the caller gave none.
C10_ForwardWidth ==
    InForward =>
        /\ \A i \in Batch : Len(gen.state[i].outputs) = gen.t
        /\ gen.t <= CallWidth
        /\ gen.pc = "forward_returned" =>
              /\ \A i \in Batch : Len(gen.state[i].outputs) = CallWidth
              /\ gen.returned_lengths =
                    IF gen.has_lengths THEN gen.lengths
                    ELSE [i \in Batch |-> CallWidth]

\* a returned call on a batch in which every true length is below the
\* padded width, with a forced and an unforced step
C10_Witness ==
    /\ gen.pc = "forward_returned"
    /\ gen.has_lengths /\ gen.has_target
    /\ \A i \in Batch : gen.lengths[i] < CallWidth
    /\ \E k \in 1..gen.t : gen.forced[k]
    /\ \E k \in 1..gen.t : ~gen.forced[k]
    /\ \A i \in Batch : Len(gen.state[i].outputs) = CallWidth

(***************************************************************************)
(* Floating-point values as the Trainer compares them: an exact rational   *)
(* num/den (den > 0), NaN, or +infinity.                                   *)
(***************************************************************************)
Num(n, d) == [kind |-> "num", num |-> n, den |-> d]
NaN == [kind |-> "nan", num |-> 0, den |-> 1]
Inf == [kind |-> "inf", num |-> 0, den |-> 1]

\* a < b on floats: every comparison with NaN is false
FLess(a, b) ==
    IF a.kind \in {"nan", "raised"} \/ b.kind \in {"nan", "raised"} THEN FALSE
    ELSE IF a.kind = "inf" THEN FALSE
    ELSE IF b.kind = "inf" THEN TRUE
    ELSE a.num * b.den < b.num * a.den

\* a + b on floats
FAdd(a, b) ==
    IF a.kind = "nan" \/ b.kind = "nan" THEN NaN
    ELSE IF a.kind = "inf" \/ b.kind = "inf" THEN Inf
    ELSE Num(a.num * b.den + b.num * a.den, a.den * b.den)

\* a == b on floats
FEq(a, b) ==
    /\ a.kind \notin {"nan", "raised"} /\ b.kind \notin {"nan", "raised"}
    /\ ~FLess(a, b) /\ ~FLess(b, a)

\* the outcome of a float expression that raises ZeroDivisionError
Raised == [kind |-> "raised", num |-> 0, den |-> 1]

\* a / n for a positive integer n
FDivInt(a, n) == IF a.kind = "num" THEN Num(a.num, a.den * n) ELSE a

(***************************************************************************)
(* Paths are sequences of tokens; "/" and ".pt" are tokens of their own.   *)
(***************************************************************************)
\* os.path.join(checkpoint_dir, f"checkpoint_epoch_{epoch}.pt")
checkpoint_path(checkpoint_dir, epoch) ==
    checkpoint_dir \o <<"/", "checkpoint_epoch_", ToString(epoch), ".pt">>

\* path.replace(".pt", "_best.pt"): str.replace rewrites every occurrence
RECURSIVE replace_pt(_)
replace_pt(path) ==
    IF path = <<>> THEN <<>>
    ELSE IF Head(path) = ".pt"
         THEN <<"_best", ".pt">> \o replace_pt(Tail(path))
         ELSE <<Head(path)>> \o replace_pt(Tail(path))

\* a rewrite of the file extension only
replace_suffix_only(path) ==
    SubSeq(path, 1, Len(path) - 1) \o <<"_best", ".pt">>

best_path_of(path) == replace_pt(path)

\* the directory a file path lies in
Parent(path) ==
    LET k == CHOOSE k \in 1..Len(path) :
                 path[k] = "/" /\ \A j \in (k + 1)..Len(path) : path[j] # "/"
    IN  SubSeq(path, 1, k - 1)

\* torch.save(checkpoint, path) succeeds iff the directory exists
CanSave(ds, path) == Parent(path) \in ds

torch_save(fs, path, checkpoint) ==
    [p \in (DOMAIN fs) \cup {path} |-> IF p = path THEN checkpoint ELSE fs[p]]

(***************************************************************************)
(* Trainer: mouse_trajectory_gan/training/trainer.py and                   *)
(* keyboard_dynamics_gan/training/trainer.py (the same control flow).      *)
(***************************************************************************)
\* torch.optim.Adam.step(): the parameters move, the optimizer counts a step
optimizer_step(params) == (params + 1) % 3

\* "for _ in range(self.config.n_critic)"
CriticStepsTooFew(config) == config.n_critic - 1
CriticSteps(config) == config.n_critic

\* "epoch % 10 == 0"
CheckpointEvery == 10
IsPeriodicEpoch(epoch) == epoch % CheckpointEvery = 0

\* the dictionary Trainer.save_checkpoint serialises
checkpoint_of_next_epoch(t) ==
    [epoch |-> t.epoch + 1,
     generator_state_dict |-> t.generator,
     discriminator_state_dict |-> t.discriminator,
     g_optimizer_state_dict |-> t.g_optimizer,
     d_optimizer_state_dict |-> t.d_optimizer,
     config |-> t.config,
     best_loss |-> t.best_loss]
checkpoint_of(t) ==
    [epoch |-> t.epoch,
     generator_state_dict |-> t.generator,
     discriminator_state_dict |-> t.discriminator,
     g_optimizer_state_dict |-> t.g_optimizer,
     d_optimizer_state_dict |-> t.d_optimizer,
     config |-> t.config,
     best_loss |-> t.best_loss]

\* Trainer.save_checkpoint(path, is_best): the files after the call, the
\* torch.save calls that completed, and whether the call raised
save_checkpoint(fs, ds, t, path, is_best) ==
    LET checkpoint == checkpoint_of(t)
        best_path == best_path_of(path)
    IN  IF ~CanSave(ds, path)
        THEN [files |-> fs, written |-> <<>>, raised |-> TRUE]
        ELSE IF ~is_best
        THEN [files |-> torch_save(fs, path, checkpoint),
              written |-> <<path>>, raised |-> FALSE]
        ELSE IF ~CanSave(ds, best_path)
        THEN [files |-> torch_save(fs, path, checkpoint),
              written |-> <<path>>, raised |-> TRUE]
        ELSE [files |-> torch_save(torch_save(fs, path, checkpoint),
                                   best_path, checkpoint),
              written |-> <<path, best_path>>, raised |-> FALSE]

\* Trainer.load_checkpoint applied to the loaded dictionary
load_checkpoint_with_config(t, checkpoint) ==
    [t EXCEPT !.epoch = checkpoint.epoch,
              !.generator = checkpoint.generator_state_dict,
              !.discriminator = checkpoint.discriminator_state_dict,
              !.g_optimizer = checkpoint.g_optimizer_state_dict,
              !.d_optimizer = checkpoint.d_optimizer_state_dict,
              !.config = checkpoint.config,
              !.best_loss = checkpoint.best_loss]
load_checkpoint_swapped(t, checkpoint) ==
    [t EXCEPT !.epoch = checkpoint.epoch,
              !.generator = checkpoint.generator_state_dict,
              !.discriminator = checkpoint.generator_state_dict,
              !.g_optimizer = checkpoint.g_optimizer_state_dict,
              !.d_optimizer = checkpoint.d_optimizer_state_dict,
              !.best_loss = checkpoint.best_loss]
load_checkpoint(t, checkpoint) ==
    [t EXCEPT !.epoch = checkpoint.epoch,
              !.generator = checkpoint.generator_state_dict,
              !.discriminator = checkpoint.discriminator_state_dict,
              !.g_optimizer = checkpoint.g_optimizer_state_dict,
              !.d_optimizer = checkpoint.d_optimizer_state_dict,
              !.best_loss = checkpoint.best_loss]

\* history: the paths of written now hold a snapshot of t
Snapshot(sn, written, t) ==
    LET ps == {written[k] : k \in 1..Len(written)}
    IN  [q \in (DOMAIN sn) \cup ps |-> IF q \in ps THEN t ELSE sn[q]]

\* Trainer.__init__ (lines 72-75) on freshly initialised networks
NewTrainer(gw, dw, config) ==
    [generator |-> gw,
     discriminator |-> dw,
     g_optimizer |-> 0,
     d_optimizer |-> 0,
     config |-> config,
     best_loss |-> Inf,
     patience_counter |-> 0,
     epoch |-> 0,
     d_step |-> 0]

\* checkpoint_dir: the default of Trainer.train, and a directory whose name
\* contains ".pt"
DefaultDir == <<"checkpoints">>
DottedDir == <<"run", ".pt">>

\* The values a step's d_loss.item() / g_loss.item() takes in the model
LossValues == {Num(0, 1), Num(1, 1), NaN}

\* The largest num_epochs passed to Trainer.train, and the largest number
\* of batches the dataloader yields per epoch
NumEpochs == 11
MaxBatches == 2

\* epoch_metrics[k] stands as (sum, count) of the list: np.mean reads no more
EmptyMetric == [sum |-> Num(0, 1), n |-> 0]
AppendMetric(m, v) == [sum |-> FAdd(m.sum, v), n |-> m.n + 1]
np_mean(m) == FDivInt(m.sum, m.n)

IdleRun == [pc |-> "idle", calls |-> 0]

\* History kept beside a run of train: whether it follows a load_checkpoint,
\* the epoch index train started at, the epoch indices executed, and the
\* lowest combined loss.  LowerOf is the smaller of a value seen before
\* and a new one, a NaN never being the smaller
LowerOf(a, b) ==
    IF b.kind # "num" THEN a
    ELSE IF a.kind # "num" THEN b
    ELSE IF b.num * a.den < a.num * b.den THEN b ELSE a

\* A freshly constructed Trainer about to be trained on a dataloader of
\* nb batches for up to ne epochs, checkpointing to one of dirset
TrainInitWith(ncs, nbs, nes, dirset, calls) ==
    /\ gen = [pc |-> "none"]
    /\ \E gw \in {0, 1}, dw \in {1, 2}, nc \in ncs, pa \in {1, 2} :
           trainer = NewTrainer(gw, dw, [n_critic |-> nc, patience |-> pa])
    /\ \E nb \in nbs, ne \in nes, d \in dirset :
           env = [num_batches |-> nb, num_epochs |-> ne, checkpoint_dir |-> d,
                  max_calls |-> calls]
    /\ run = IdleRun
    /\ files = <<>>
    /\ dirs = {}
    /\ snap = <<>>

\* Trainer.train, lines 427-432: entry, and the first test of the epoch loop
Train ==
    /\ run.pc \in {"idle", "loaded", "resaved"}
    /\ run.calls < env.max_calls
    /\ dirs' = dirs \cup {env.checkpoint_dir}
    /\ run' = [pc |-> IF trainer.epoch < env.num_epochs
                      THEN "epoch_begin" ELSE "finished",
               calls |-> run.calls + 1,
               epoch |-> trainer.epoch,
               batch |-> 0, critic |-> 0,
               updates |-> <<>>,
               d_loss |-> EmptyMetric, g_loss |-> EmptyMetric,
               written |-> <<>>, is_best |-> FALSE,
               early_stop |-> FALSE,
               best_at_start |-> trainer.best_loss,
               lowest_combined |-> Inf,
               resumed |-> run.pc # "idle",
               first_epoch |-> trainer.epoch,
               executed |-> <<>>]
    /\ UNCHANGED <<gen, trainer, env, files, snap>>

\* line 433 and the head of train_epoch (lines 287-301)
EpochBegin ==
    /\ run.pc = "epoch_begin"
    /\ trainer' = [trainer EXCEPT !.epoch = run.epoch]
    /\ run' = [run EXCEPT !.pc = "critic", !.batch = 1, !.critic = 0,
                          !.updates = <<>>,
                          !.d_loss = EmptyMetric, !.g_loss = EmptyMetric,
                          !.written = <<>>, !.is_best = FALSE,
                          !.executed = Append(run.executed, run.epoch)]
    /\ UNCHANGED <<gen, env, files, dirs, snap>>

\* train_discriminator_step on batch run.batch, and lines 304-306
DiscriminatorStep ==
    /\ run.pc = "critic"
    /\ run.critic < CriticSteps(trainer.config)
    /\ \E d_loss \in LossValues :
        /\ trainer' = [trainer EXCEPT
                !.discriminator = optimizer_step(trainer.discriminator),
                !.d_optimizer = trainer.d_optimizer + 1,
                !.d_step = trainer.d_step + 1]
        /\ run' = [run EXCEPT
                !.critic = run.critic + 1,
                !.updates = Append(run.updates, <<"D", run.batch>>),
                !.d_loss = AppendMetric(run.d_loss, d_loss)]
    /\ UNCHANGED <<gen, env, files, dirs, snap>>

\* train_generator_step on batch run.batch, lines 309-311, and the step of
\* "for batch in dataloader"
GeneratorStep ==
    /\ run.pc = "critic"
    /\ run.critic >= CriticSteps(trainer.config)
    /\ \E g_loss \in LossValues :
        /\ trainer' = [trainer EXCEPT
                !.generator = optimizer_step(trainer.generator),
                !.g_optimizer = trainer.g_optimizer + 1]
        /\ run' = [run EXCEPT
                !.updates = Append(run.updates, <<"G", run.batch>>),
                !.g_loss = AppendMetric(run.g_loss, g_loss),
                !.critic = 0,
                !.batch = IF run.batch < env.num_batches
                          THEN run.batch + 1 ELSE run.batch,
                !.pc = IF run.batch < env.num_batches
                       THEN "critic" ELSE "epoch_end"]
    /\ UNCHANGED <<gen, env, files, dirs, snap>>

\* metrics["d_loss"] + metrics["g_loss"] of the epoch that just ran
combined_loss == FAdd(np_mean(run.d_loss), np_mean(run.g_loss))

\* "if combined_loss < self.best_loss"
IsBestOrEqual(combined, best) == ~FLess(best, combined)
IsBest(combined, best) == FLess(combined, best)

\* "if self.patience_counter >= self.config.patience"
EarlyStopLate(counter, config) == counter > config.patience
EarlyStop(counter, config) == counter >= config.patience

\* "if epoch % 10 == 0 or is_best"
ShouldSaveBestOnly(epoch, is_best) == is_best
ShouldSave(epoch, is_best) == IsPeriodicEpoch(epoch) \/ is_best

\* Trainer.train, lines 436-471: the rest of the loop body after train_epoch
EpochEnd ==
    /\ run.pc = "epoch_end"
    /\ LET is_best == IsBest(combined_loss, trainer.best_loss)
           best_loss == IF is_best THEN combined_loss ELSE trainer.best_loss
           counter == IF is_best THEN 0 ELSE trainer.patience_counter + 1
           t1 == [trainer EXCEPT !.best_loss = best_loss,
                                 !.patience_counter = counter]
           saved == IF ShouldSave(run.epoch, is_best)
                    THEN save_checkpoint(files, dirs, t1,
                            checkpoint_path(env.checkpoint_dir,
                                            run.epoch),
                            is_best)
                    ELSE [files |-> files, written |-> <<>>, raised |-> FALSE]
           stop == EarlyStop(counter, trainer.config)
       IN  /\ trainer' = t1
           /\ files' = saved.files
           /\ snap' = Snapshot(snap, saved.written, t1)
           /\ run' = [run EXCEPT
                !.written = saved.written,
                !.is_best = is_best,
                !.lowest_combined = LowerOf(run.lowest_combined,
                                            combined_loss),
                !.early_stop = ~saved.raised /\ stop,
                !.epoch = IF saved.raised \/ stop
                             \/ run.epoch + 1 >= env.num_epochs
                          THEN run.epoch ELSE run.epoch + 1,
                !.pc = IF saved.raised THEN "raised"
                       ELSE IF stop \/ run.epoch + 1 >= env.num_epochs
                       THEN "finished" ELSE "epoch_begin"]
    /\ UNCHANGED <<gen, env, dirs>>

\* lines 473-474: self.writer.close() and the return
TrainReturn ==
    /\ run.pc = "finished"
    /\ run' = [run EXCEPT !.pc = "returned"]
    /\ UNCHANGED <<gen, trainer, env, files, dirs, snap>>

\* A new process: fresh networks and a fresh Trainer of the same config
\* (scripts/train.py, lines 150-160); the files stay
NewProcess ==
    /\ run.pc = "returned"
    /\ run.calls < env.max_calls
    /\ \E gw \in {0, 1}, dw \in {1, 2} :
           trainer' = NewTrainer(gw, dw, trainer.config)
    /\ run' = [pc |-> "idle", calls |-> run.calls]
    /\ UNCHANGED <<gen, env, files, dirs, snap>>

\* trainer.load_checkpoint(path) of an existing checkpoint file
LoadCheckpoint ==
    /\ run.pc = "idle"
    /\ \E path \in DOMAIN files :
        /\ trainer' = load_checkpoint(trainer, files[path])
        /\ run' = [pc |-> "loaded", calls |-> run.calls, loaded |-> path]
    /\ UNCHANGED <<gen, env, files, dirs, snap>>

\* trainer.save_checkpoint(path, is_best) called right after the load
ResavePath == DefaultDir \o <<"/", "resaved", ".pt">>

SaveCheckpoint ==
    /\ run.pc = "loaded"
    /\ \E is_best \in BOOLEAN :
        LET saved == save_checkpoint(files, dirs, trainer, ResavePath, is_best)
        IN  /\ files' = saved.files
            /\ snap' = Snapshot(snap, saved.written, trainer)
            /\ run' = [pc |-> "resaved", calls |-> run.calls,
                       loaded |-> run.loaded, written |-> saved.written]
    /\ UNCHANGED <<gen, trainer, env, dirs>>

ResumeNext ==
    \/ Train
    \/ EpochBegin
    \/ DiscriminatorStep
    \/ GeneratorStep
    \/ EpochEnd
    \/ TrainReturn
    \/ NewProcess
    \/ LoadCheckpoint
    \/ SaveCheckpoint

TrainNext ==
    \/ Train
    \/ EpochBegin
    \/ DiscriminatorStep
    \/ GeneratorStep
    \/ EpochEnd
    \/ TrainReturn

\* Whole training runs on a one-batch dataloader
TrainInit == TrainInitWith({1, 2}, {1}, {NumEpochs}, {DefaultDir}, 1)
SpecTrain == TrainInit /\ [][TrainNext]_vars

\* The same runs for both directories
TrainDirInit ==
    TrainInitWith({1, 2}, {1}, {NumEpochs}, {DefaultDir, DottedDir}, 1)
SpecTrainDir == TrainDirInit /\ [][TrainNext]_vars

\* Short runs on dataloaders of several batches
EpochInit == TrainInitWith({1, 2}, 1..MaxBatches, {1, 2}, {DefaultDir}, 1)
SpecEpoch == EpochInit /\ [][TrainNext]_vars

\* A short run, then a new process that loads one of its checkpoints,
\* saves it again and resumes
ResumeInit == TrainInitWith({1}, {1}, {2, 3}, {DefaultDir}, 2)
SpecResume == ResumeInit /\ [][ResumeNext]_vars

(***************************************************************************)
(* Properties of Generator.generate                                        *)
(***************************************************************************)
\* start plus the sum of the first n emitted (dx, dy) of sequence i
RECURSIVE PosAfter(_, _)
PosAfter(i, n) ==
    IF n = 0 THEN gen.start[i]
    ELSE Add2(PosAfter(i, n - 1),
              <<gen.outputs[i][n][1], gen.outputs[i][n][2]>>)

Within(i, n) ==
    WithinThreshold(PosAfter(i, n), gen.end[i], gen.distance_threshold)

\* C1: every returned sequence ends within distance_threshold of the target
\* after lengths[i] steps, or its length is max_generation_steps.
C1_EarlyStopContract ==
    gen.pc = "returned" =>
        \A i \in Batch :
            /\ gen.lengths[i] \in 1..Len(gen.outputs[i])
            /\ \/ Within(i, gen.lengths[i])
               \/ gen.lengths[i] = MaxGenSteps

C1_Witness ==
    /\ gen.pc = "returned"
    /\ \E i \in Batch : gen.lengths[i] < MaxGenSteps /\ Within(i, gen.lengths[i])
    /\ \E j \in Batch : gen.lengths[j] = MaxGenSteps /\ ~Within(j, MaxGenSteps)

\* The steps after which sequence i was within the threshold so far
Crossings(i) == {n \in 1..Len(gen.outputs[i]) : Within(i, n)}

\* C2: the recorded length of a sequence that has crossed the threshold is
\* the index of its first crossing, at every later step of the call.
C2_FirstCrossingKept ==
    \A i \in Batch :
        Crossings(i) # {} =>
            /\ gen.lengths[i] \in Crossings(i)
            /\ \A n \in Crossings(i) : gen.lengths[i] <= n

\* a sequence crossed, left the threshold and entered it again while the
\* batch was still running
C2_Witness ==
    \E i \in Batch : \E a, b, c \in 1..Len(gen.outputs[i]) :
        /\ a < b /\ b < c
        /\ Within(i, a) /\ ~Within(i, b) /\ Within(i, c)
        /\ gen.lengths[i] = a
        /\ gen.pc = "returned"

\* The first step after which sequence i was within the threshold
FirstCrossing(i) ==
    CHOOSE n \in Crossings(i) : \A m \in Crossings(i) : n <= m

\* The number of steps emitted for the batch so far
StepsEmitted == Len(gen.outputs[1])

\* C11: generate returns 1 <= lengths[i] <= S <= max_generation_steps for
\* the number S of steps emitted; the loop runs while some sequence has not
\* crossed the threshold and stops right after the step at which the last
\* one crossed first, so S is the largest first crossing (or
\* max_generation_steps); a sequence that never crossed gets S.
C11_BatchStop ==
    /\ \A i \in Batch : Len(gen.outputs[i]) = StepsEmitted
    /\ StepsEmitted <= MaxGenSteps
    /\ gen.pc = "loop" => \E i \in Batch : Crossings(i) = {}
    /\ gen.pc = "returned" =>
          /\ \A i \in Batch :
                /\ 1 <= gen.lengths[i] /\ gen.lengths[i] <= StepsEmitted
                /\ Crossings(i) = {} => gen.lengths[i] = StepsEmitted
          /\ IF \A i \in Batch : Crossings(i) # {}
             THEN /\ \E i \in Batch : StepsEmitted = FirstCrossing(i)
                  /\ \A i \in Batch : FirstCrossing(i) <= StepsEmitted
             ELSE StepsEmitted = MaxGenSteps

\* a batch that stopped early, whose sequences crossed at different steps
C11_Witness ==
    /\ gen.pc = "returned"
    /\ StepsEmitted < MaxGenSteps
    /\ \E i, j \in Batch :
          /\ gen.lengths[i] < gen.lengths[j]
          /\ gen.lengths[j] = StepsEmitted
          /\ FirstCrossing(i) = gen.lengths[i]

(***************************************************************************)
(* Feature extractors and critics.  Features are quantised integers       *)
(* (durations in ms, positions in hundredths, velocity and hold_ratio in   *)
(* thousandths); magnitudes saturate at Sat, which a quotient whose        *)
(* denominator is the eps alone reaches.                                   *)
(***************************************************************************)
Sat == 1000000
ClampNone(x, lo, hi) == x
Clamp(x, lo, hi) == IF x < lo THEN lo ELSE IF x > hi THEN hi ELSE x
SatDiv(a, b) ==
    IF b = 0 THEN Sign(a) * Sat ELSE Clamp(a \div b, -Sat, Sat)
Abs(x) == IF x < 0 THEN -x ELSE x
SatMul(a, b) ==
    IF a = 0 \/ b = 0 THEN 0
    ELSE IF Abs(a) > Sat \div Abs(b) THEN Sign(a) * Sign(b) * Sat
    ELSE a * b

\* torch.sqrt(dx**2 + dy**2 + eps) in units of sqrt(eps) = 1e-4, rounded
\* down: 1 for no displacement at all
displacement(dx, dy) ==
    LET x == 10000 * (dx * dx + dy * dy) + 1
    IN  CHOOSE r \in 1..(100 * (Abs(dx) + Abs(dy)) + 1) :
            r * r <= x /\ x < (r + 1) * (r + 1)

\* digraph_time = hold_times + flight_times
digraph_time_hold(hold, flight) == hold
digraph_time(hold, flight) == hold + flight

\* typing_speed = 1.0 / (digraph_time + eps), before the clamp
typing_speed(timings, t) ==
    SatDiv(1000, digraph_time(timings[t][1], timings[t][2]))

\* speed_change[:, 1:] = typing_speed[:, 1:] - typing_speed[:, :-1]
speed_change(timings, t) ==
    IF t = 1 THEN 0
    ELSE typing_speed(timings, t) - typing_speed(timings, t - 1)

\* typing_jerk[:, 2:] = speed_change[:, 2:] - speed_change[:, 1:-1]
typing_jerk(timings, t) ==
    IF t <= 2 THEN 0
    ELSE speed_change(timings, t) - speed_change(timings, t - 1)

\* compute_rhythm_features at step t (1-based) of one padded sequence
compute_rhythm_features(timings, t) ==
    LET hold == timings[t][1]
        flight == timings[t][2]
    IN  <<hold, flight, digraph_time(hold, flight),
          Clamp(typing_speed(timings, t), 0, 100),
          Clamp(speed_change(timings, t), -100, 100),
          Clamp(SatDiv(1000 * hold, digraph_time(hold, flight)), 0, 1000),
          Clamp(typing_jerk(timings, t), -1000, 1000)>>

\* trajectory_to_absolute: the seq_len + 1 positions of one sequence
trajectory_to_absolute(start, deltas) ==
    [k \in 1..(Len(deltas) + 1) |-> ForcedPosition(start, deltas, k - 2)]

\* F.pad(dts, (1, 0), value=0.001)
pad_dts(sequence) ==
    <<1>> \o [k \in 1..Len(sequence) |-> sequence[k][3]]

kin_dx(positions, t) ==
    IF t = 1 THEN 0 ELSE positions[t][1] - positions[t - 1][1]
kin_dy(positions, t) ==
    IF t = 1 THEN 0 ELSE positions[t][2] - positions[t - 1][2]

\* velocity = displacement / (dts + eps), in thousandths
kin_velocity(positions, dts, t) ==
    SatDiv(100 * displacement(kin_dx(positions, t), kin_dy(positions, t)),
           dts[t])
kin_vx(positions, dts, t) == SatDiv(1000 * kin_dx(positions, t), dts[t])
kin_vy(positions, dts, t) == SatDiv(1000 * kin_dy(positions, t), dts[t])

\* dt_mid = (dts[:, 1:] + dts[:, :-1]) / 2 + eps, at step t >= 2
dt_mid(dts, t) == (dts[t] + dts[t - 1]) \div 2

kin_acceleration(positions, dts, t) ==
    IF t = 1 THEN 0
    ELSE SatDiv(kin_velocity(positions, dts, t)
                  - kin_velocity(positions, dts, t - 1),
                dt_mid(dts, t))
kin_jerk(positions, dts, t) ==
    IF t <= 2 THEN 0
    ELSE SatDiv(kin_acceleration(positions, dts, t)
                  - kin_acceleration(positions, dts, t - 1),
                dt_mid(dts, t))
kin_ax(positions, dts, t) ==
    IF t = 1 THEN 0
    ELSE SatDiv(kin_vx(positions, dts, t) - kin_vx(positions, dts, t - 1),
                dt_mid(dts, t))
kin_ay(positions, dts, t) ==
    IF t = 1 THEN 0
    ELSE SatDiv(kin_vy(positions, dts, t) - kin_vy(positions, dts, t - 1),
                dt_mid(dts, t))
kin_curvature(positions, dts, t) ==
    LET vx == kin_vx(positions, dts, t)
        vy == kin_vy(positions, dts, t)
    IN  SatDiv(Abs(SatMul(vx, kin_ay(positions, dts, t))
                   - SatMul(vy, kin_ax(positions, dts, t))),
               SatMul(vx, vx) + SatMul(vy, vy))

\* compute_kinematics at step t (1-based) of one padded sequence
compute_kinematics(positions, dts, t) ==
    <<positions[t][1], positions[t][2],
      kin_dx(positions, t), kin_dy(positions, t), dts[t],
      Clamp(kin_velocity(positions, dts, t), 0, 100 * 1000),
      Clamp(kin_acceleration(positions, dts, t), -1000, 1000),
      Clamp(kin_jerk(positions, dts, t), -10000, 10000),
      Clamp(kin_curvature(positions, dts, t), 0, 100)>>

(***************************************************************************)
(* The feature extractors on one sequence of 1..MaxWidth steps             *)
(***************************************************************************)
\* (hold, flight) of a keystroke in ms: zero durations, a key released
\* after the next one is pressed (negative flight), ordinary values
KeystrokeValues ==
    {<<0, 0>>, <<80, 40>>, <<100, 900>>, <<20, -20>>, <<5, -20>>}

\* A position and the dt (ms) that led to it: no movement, zero dt
PositionValues == {<<0, 0>>, <<1, 0>>, <<0, 2>>}
DtValues == {0, 1, 8}

FeaturesInit ==
    /\ gen = [pc |-> "none"] /\ trainer = [epoch |-> 0]
    /\ env = [num_epochs |-> 0] /\ files = <<>> /\ dirs = {} /\ snap = <<>>
    /\ \E seq_len \in 1..MaxWidth :
        \/ \E timings \in [1..seq_len -> KeystrokeValues] :
              run = [pc |-> "features_call", variant |-> "keystroke",
                     seq_len |-> seq_len, timings |-> timings,
                     features |-> <<>>]
        \/ \E positions \in [1..seq_len -> PositionValues],
              dts \in [1..seq_len -> DtValues] :
              run = [pc |-> "features_call", variant |-> "trajectory",
                     seq_len |-> seq_len, positions |-> positions,
                     dts |-> dts, features |-> <<>>]

\* compute_rhythm_features(hold_times, flight_times)
ComputeRhythmFeatures ==
    /\ run.pc = "features_call" /\ run.variant = "keystroke"
    /\ run' = [run EXCEPT
                !.pc = "features_done",
                !.features = [t \in 1..run.seq_len |->
                                compute_rhythm_features(run.timings, t)]]
    /\ UNCHANGED <<gen, trainer, env, files, dirs, snap>>

\* compute_kinematics(positions, dts)
ComputeKinematics ==
    /\ run.pc = "features_call" /\ run.variant = "trajectory"
    /\ run' = [run EXCEPT
                !.pc = "features_done",
                !.features = [t \in 1..run.seq_len |->
                                compute_kinematics(run.positions, run.dts,
                                                   t)]]
    /\ UNCHANGED <<gen, trainer, env, files, dirs, snap>>

FeaturesNext ==
    \/ ComputeRhythmFeatures
    \/ ComputeKinematics

SpecFeatures == FeaturesInit /\ [][FeaturesNext]_vars

FeaturesOf(variant) ==
    run.pc = "features_done" /\ run.variant = variant

\* C13: a derivative feature at a step without the predecessors it is
\* computed from is 0: keystroke speed_change at the first step and jerk at
\* the first two; trajectory dx, dy, velocity, acceleration and curvature at
\* the first step and jerk at the first two.
C13_FirstStepsZero ==
    /\ FeaturesOf("keystroke") =>
          /\ run.features[1][5] = 0
          /\ \A t \in 1..run.seq_len : t <= 2 => run.features[t][7] = 0
    /\ FeaturesOf("trajectory") =>
          /\ \A f \in {3, 4, 6, 7, 9} : run.features[1][f] = 0
          /\ \A t \in 1..run.seq_len : t <= 2 => run.features[t][8] = 0

\* The same without the velocity
FirstStepsZeroButVelocity ==
    /\ FeaturesOf("keystroke") =>
          /\ run.features[1][5] = 0
          /\ \A t \in 1..run.seq_len : t <= 2 => run.features[t][7] = 0
    /\ FeaturesOf("trajectory") =>
          /\ \A f \in {3, 4, 7, 9} : run.features[1][f] = 0
          /\ \A t \in 1..run.seq_len : t <= 2 => run.features[t][8] = 0

\* C14: for hold >= 0 and flight >= 0 the rhythm features return hold and
\* flight unchanged, digraph = hold + flight, and hold_ratio within [0, 1]
\* (thousandths), also when hold + flight = 0.
C14_RhythmValues ==
    FeaturesOf("keystroke") =>
        \A t \in 1..run.seq_len :
            LET hold == run.timings[t][1]
                flight == run.timings[t][2]
            IN  hold >= 0 /\ flight >= 0 =>
                    /\ run.features[t][1] = hold
                    /\ run.features[t][2] = flight
                    /\ run.features[t][3] = hold + flight
                    /\ run.features[t][6] >= 0
                    /\ run.features[t][6] <= 1000
                    /\ hold + flight = 0 => run.features[t][6] = 0

\* a zero keystroke followed by an ordinary one
C14_Witness ==
    /\ FeaturesOf("keystroke")
    /\ run.seq_len >= 2
    /\ run.timings[1] = <<0, 0>> /\ run.features[1][6] = 0
    /\ run.timings[2] = <<100, 900>> /\ run.features[2][6] = 100
    /\ run.features[2][3] = 1000

clamp_none(length) == length
clamp_min_1(length) == IF length < 1 THEN 1 ELSE length

\* The bidirectional LSTM over the packed sequence: the final hidden state
\* of the forward direction after steps 1..n, and of the backward
\* direction after steps n..k
RECURSIVE h_forward(_, _, _)
h_forward(dw, encoded, n) ==
    IF n = 0 THEN 0
    ELSE Net(dw, <<h_forward(dw, encoded, n - 1), encoded[n]>>)
RECURSIVE h_backward(_, _, _, _)
h_backward(dw, encoded, k, n) ==
    IF k > n THEN 0
    ELSE Net(dw + 1, <<h_backward(dw, encoded, k + 1, n), encoded[k]>>)

\* The steps of a padded sequence that pack_padded_sequence hands to the
\* LSTM
PackedWhole(encoded, length) == Len(encoded)
Packed(encoded, length) == clamp_min_1(length)

\* self.output_layers(torch.cat([h_forward, h_backward])) of one sequence
critic_score(dw, encoded, length) ==
    Net(dw, <<h_forward(dw, encoded, Packed(encoded, length)),
              h_backward(dw, encoded, 1, Packed(encoded, length))>>)

\* keyboard_dynamics_gan Discriminator.forward for one sequence
keystroke_critic(dw, char_ids, timings, length) ==
    critic_score(dw,
        [t \in 1..Len(timings) |->
            Net(dw, <<char_embedding(dw, char_ids[t])>>
                    \o compute_rhythm_features(timings, t))],
        length)

\* mouse_trajectory_gan Discriminator.forward for one sequence
trajectory_critic(dw, positions, dts, length) ==
    critic_score(dw,
        [t \in 1..Len(positions) |->
            Net(dw, compute_kinematics(positions, dts, t))],
        length)

\* Values a padded step can hold: the collate functions' zero, another
\* finite value, and a finite value at or above SqrtFloatMax
PadValues(variant) ==
    IF variant = "keystroke"
    THEN {<<0, 0>>, <<900, 40>>, <<30000, 30000>>}
    ELSE {<<0, 0, 0>>, <<2, -1, 900>>, <<0, 0, 30000>>}

(***************************************************************************)
(* Discriminator.forward on a padded batch with any true lengths           *)
(***************************************************************************)
\* pack_padded_sequence(encoded, lengths, batch_first=True,
\* enforce_sorted=...) raises for a length below 1 or above the padded
\* width, and for unsorted lengths when enforce_sorted is set
pack_padded_sequence_raises(lengths, steps, enforce_sorted) ==
    \/ \E i \in Batch : lengths[i] < 1 \/ lengths[i] > steps
    \/ /\ enforce_sorted
       /\ \E i, j \in Batch : i < j /\ lengths[i] < lengths[j]

\* The tensors one Discriminator.forward call receives for sequence i, with
\* the given number of valid entries out of steps
CriticInput(variant, i, length, steps, pad) ==
    IF variant = "keystroke"
    THEN [char_ids |-> PaddedChars(i, length, steps),
          timings |-> PaddedTimings(i, length, steps, pad)]
    ELSE LET moves == PaddedMoves(i, IF length = 0 THEN 0 ELSE length - 1,
                                  steps - 1, pad)
         IN  [trajectories |-> trajectory_to_absolute(RecordedStart(i), moves),
              dts |-> pad_dts(moves)]

\* Discriminator.forward of either variant for one sequence
critic_forward(variant, dw, input, length) ==
    IF variant = "keystroke"
    THEN keystroke_critic(dw, input.char_ids, input.timings, length)
    ELSE trajectory_critic(dw, input.trajectories, input.dts, length)

\* The first n entries of every tensor of an input
Prefix(variant, input, n) ==
    IF variant = "keystroke"
    THEN [char_ids |-> SubSeq(input.char_ids, 1, n),
          timings |-> SubSeq(input.timings, 1, n)]
    ELSE [trajectories |-> SubSeq(input.trajectories, 1, n),
          dts |-> SubSeq(input.dts, 1, n)]

\* A critic and a padded batch (keystroke: steps >= 1 keystrokes;
\* trajectory: steps >= 2 positions) with true lengths 0..steps in any order
CriticInit ==
    /\ gen = [pc |-> "none"]
    /\ env = [num_epochs |-> 0] /\ files = <<>> /\ dirs = {} /\ snap = <<>>
    /\ \E variant \in {"keystroke", "trajectory"}, dw \in {0, 1},
          width \in 1..MaxWidth :
        LET steps == IF variant = "keystroke" THEN width ELSE width + 1
        IN  \E lengths \in [Batch -> 0..steps], pad \in PadValues(variant) :
              /\ trainer = [discriminator |-> dw, epoch |-> 0]
              /\ run = [pc |-> "critic_call",
                        variant |-> variant,
                        steps |-> steps,
                        lengths |-> lengths,
                        input |-> [i \in Batch |->
                            CriticInput(variant, i, lengths[i], steps, pad)],
                        scores |-> <<>>]

\* Discriminator.forward(input, lengths)
CriticForward ==
    /\ run.pc = "critic_call"
    /\ LET packed_lengths == [i \in Batch |-> clamp_min_1(run.lengths[i])]
           raised == pack_padded_sequence_raises(packed_lengths, run.steps,
                                                 FALSE)
       IN  run' = [run EXCEPT
                    !.pc = IF raised THEN "critic_raised"
                           ELSE "critic_returned",
                    !.scores = IF raised THEN <<>>
                               ELSE [i \in Batch |->
                                   <<critic_forward(run.variant,
                                        trainer.discriminator,
                                        run.input[i], run.lengths[i])>>]]
    /\ UNCHANGED <<gen, trainer, env, files, dirs, snap>>

SpecCritic == CriticInit /\ [][CriticForward]_vars

\* C12: Discriminator.forward on a padded batch whose true lengths are in
\* any order and may be 0 does not raise, returns one score per sequence
\* (shape (batch, 1)), and the score of sequence i is the score of its first
\* max(1, lengths[i]) steps alone.
C12_CriticVariableLengths ==
    /\ run.pc # "critic_raised"
    /\ run.pc = "critic_returned" =>
          /\ DOMAIN run.scores = Batch
          /\ \A i \in Batch :
                LET n == IF run.lengths[i] < 1 THEN 1 ELSE run.lengths[i]
                IN  /\ Len(run.scores[i]) = 1
                    /\ run.scores[i][1] =
                          critic_forward(run.variant, trainer.discriminator,
                                         Prefix(run.variant, run.input[i], n),
                                         n)

\* a returned call on an unsorted batch with a sequence of length 0 and a
\* non-zero padded tail
C12_Witness ==
    /\ run.pc = "critic_returned"
    /\ run.lengths[1] = 0
    /\ \E i \in Batch : run.lengths[i] > run.lengths[1]
                        /\ run.lengths[i] < run.steps
    /\ run.variant = "keystroke"
    /\ run.input[1].timings[1] = <<900, 40>>

(***************************************************************************)
(* The generator and critic steps on one batch.  Loss terms are floats:    *)
(* a square whose operand is at or above SqrtFloatMax overflows to         *)
(* infinity, and infinity times a zero mask is NaN.                        *)
(***************************************************************************)
SqrtFloatMax == 20000

\* x ** 2
Square(x) == IF Abs(x) >= SqrtFloatMax THEN Inf ELSE Num(x * x, 1)

\* a * mask.float() for a mask entry
MaskMul(a, mask) ==
    IF mask THEN a
    ELSE IF a.kind = "num" THEN Num(0, 1) ELSE NaN

\* (f[1] + ... + f[n]) of floats
RECURSIVE FSum(_, _)
FSum(f, n) == IF n = 0 THEN Num(0, 1) ELSE FAdd(FSum(f, n - 1), f[n])

\* x.sum() / (count + 1e-8)
MaskedMean(sum, count) == IF count = 0 THEN sum ELSE FDivInt(sum, count)

\* The integers (i, t) of the j-th entry of a (BatchSize, width) tensor
RowOf(j, width) == ((j - 1) \div width) + 1
ColOf(j, width) == ((j - 1) % width) + 1

\* Generator.forward on one sequence: the state after max_len iterations
RECURSIVE ForwardRun(_, _, _, _, _, _)
ForwardRun(variant, w, c, target, forced, t) ==
    IF t = 0
    THEN ForwardState(variant,
                      IF variant = "keystroke" THEN <<0, 0>> ELSE c.start)
    ELSE ForwardStepOf(variant, w, c,
                       ForwardRun(variant, w, c, target, forced, t - 1),
                       t - 1, target, forced[t])

\* arange(max_len) < lengths: step t (1-based) of a sequence is not padding
Unmasked(t, length) == TRUE
Mask(t, length) == t <= length

\* timing_diff.sum() / (mask.sum() * 2 + 1e-8)
timing_loss(fake, real, lengths, width) ==
    LET term == [j \in 1..(BatchSize * width) |->
                   LET i == RowOf(j, width)
                       t == ColOf(j, width)
                   IN  FAdd(MaskMul(Square(fake[i][t][1] - real[i][t][1]),
                                    Mask(t, lengths[i])),
                            MaskMul(Square(fake[i][t][2] - real[i][t][2]),
                                    Mask(t, lengths[i])))]
    IN  MaskedMean(FSum(term, BatchSize * width),
                   2 * SumSeq([i \in Batch |-> lengths[i]]))

\* (speed_diff * mask_rhythm).sum() / (mask_rhythm.sum() + 1e-8)
rhythm_loss(fake, lengths, width) ==
    LET term == [j \in 1..(BatchSize * (width - 1)) |->
                   LET i == RowOf(j, width - 1)
                       t == ColOf(j, width - 1)
                   IN  MaskMul(Square(typing_speed(fake[i], t + 1)
                                      - typing_speed(fake[i], t)),
                               Mask(t, lengths[i] - 1))]
    IN  MaskedMean(FSum(term, BatchSize * (width - 1)),
                   SumSeq([i \in Batch |-> lengths[i] - 1]))

\* F.mse_loss(final_pos, ends), final_pos = fake_trajectories[i, lengths[i]]
endpoint_loss(fake_trajectories, ends, fake_lengths) ==
    LET term == [i \in Batch |->
                   LET final_pos == fake_trajectories[i][fake_lengths[i] + 1]
                   IN  FAdd(Square(final_pos[1] - ends[i][1]),
                            Square(final_pos[2] - ends[i][2]))]
    IN  FDivInt(FSum(term, BatchSize), 2 * BatchSize)

\* cosine of a movement and the target direction, in thousandths of its
\* signed square
cosine_sim(delta, start, end) ==
    LET d == Sub2(end, start)
        dot == delta[1] * d[1] + delta[2] * d[2]
        nn == (delta[1] * delta[1] + delta[2] * delta[2]) * SqNorm(d)
    IN  IF nn = 0 THEN 0 ELSE Sign(dot) * ((1000 * dot * dot) \div nn)

\* ((1 - cosine_sim) * mask.float()).sum() / mask.float().sum()
direction_loss(fake, starts, ends, fake_lengths, width) ==
    LET term == [j \in 1..(BatchSize * width) |->
                   LET i == RowOf(j, width)
                       t == ColOf(j, width)
                   IN  MaskMul(Num(1000 - cosine_sim(fake[i][t], starts[i],
                                                     ends[i]), 1),
                               Mask(t, fake_lengths[i]))]
    IN  MaskedMean(FSum(term, BatchSize * width),
                   SumSeq([i \in Batch |-> fake_lengths[i]]))

\* score.mean() over the batch
score_mean(score) == Num(SumSeq([i \in Batch |-> score[i]]), BatchSize)

\* The critic score of every sequence of a batch of targets or fakes
batch_score(variant, dw, context, sequences, lengths) ==
    [i \in Batch |->
        IF variant = "keystroke"
        THEN keystroke_critic(dw, context[i].char_ids, sequences[i],
                              lengths[i])
        ELSE trajectory_critic(dw,
                 trajectory_to_absolute(context[i].start, sequences[i]),
                 pad_dts(sequences[i]), lengths[i] + 1)]

\* The batch of the given padded width and true lengths, padded with pad
BatchOf(variant, gw, width, lengths, pad) ==
    [context |-> [i \in Batch |->
                    ForwardContext(variant, gw, i, lengths[i], width)],
     sequences |-> [i \in Batch |->
                    ForwardTarget(variant, i, lengths[i], width, pad)],
     lengths |-> lengths]

\* self.generator(..., target, lengths, teacher_forcing_ratio) on a batch
fake_batch(variant, gw, batch, forced, width) ==
    [i \in Batch |->
        ForwardRun(variant, gw, batch.context[i], batch.sequences[i],
                   forced, width).outputs]

\* The scores of train_discriminator_step on a batch
discriminator_metrics(variant, gw, dw, batch, width) ==
    LET fake == fake_batch(variant, gw, batch,
                           [t \in 1..width |-> FALSE], width)
    IN  [real_score |-> batch_score(variant, dw, batch.context,
                                    batch.sequences, batch.lengths),
         fake_score |-> batch_score(variant, dw, batch.context, fake,
                                    batch.lengths)]

\* The loss terms of train_generator_step on a batch
generator_metrics(variant, gw, dw, batch, forced, width) ==
    LET fake == fake_batch(variant, gw, batch, forced, width)
        fake_score == batch_score(variant, dw, batch.context, fake,
                                  batch.lengths)
    IN  IF variant = "keystroke"
        THEN [fake_score |-> fake_score,
              g_loss |-> score_mean([i \in Batch |-> -fake_score[i]]),
              g_timing_loss |-> timing_loss(fake, batch.sequences,
                                         batch.lengths, width),
              g_rhythm_loss |-> rhythm_loss(fake, batch.lengths, width)]
        ELSE [fake_score |-> fake_score,
              g_loss |-> score_mean([i \in Batch |-> -fake_score[i]]),
              g_endpoint_loss |-> endpoint_loss(
                   [i \in Batch |->
                       trajectory_to_absolute(batch.context[i].start,
                                              fake[i])],
                   [i \in Batch |-> batch.context[i].end], batch.lengths),
              g_direction_loss |-> direction_loss(fake,
                   [i \in Batch |-> batch.context[i].start],
                   [i \in Batch |-> batch.context[i].end],
                   batch.lengths, width)]

(***************************************************************************)
(* Two batches that agree on everything but the values at their padded     *)
(* positions, given to the same Trainer with the same random draws.        *)
(***************************************************************************)
PaddingInit ==
    /\ gen = [pc |-> "none"]
    /\ env = [num_epochs |-> 0] /\ files = <<>> /\ dirs = {} /\ snap = <<>>
    /\ \E variant \in {"keystroke", "trajectory"}, gw \in {0, 1},
          dw \in {0, 1}, ratio \in Ratios, width \in 1..MaxWidth :
        \E lengths \in [Batch -> 1..width],
           pad1 \in PadValues(variant), pad2 \in PadValues(variant) :
            /\ trainer = [generator |-> gw, discriminator |-> dw,
                          epoch |-> 0]
            /\ run = [pc |-> "d_step",
                      variant |-> variant,
                      width |-> width,
                      teacher_forcing_ratio |-> ratio,
                      pads |-> <<pad1, pad2>>,
                      batches |-> [b \in 1..2 |->
                          BatchOf(variant, gw, width, lengths,
                                  <<pad1, pad2>>[b])],
                      forced |-> <<>>,
                      d_metrics |-> <<>>,
                      g_metrics |-> <<>>]

\* train_discriminator_step on each of the two batches
PaddingDiscriminatorStep ==
    /\ run.pc = "d_step"
    /\ run' = [run EXCEPT
                !.pc = "g_step",
                !.d_metrics = [b \in 1..2 |->
                    discriminator_metrics(run.variant, trainer.generator,
                                          trainer.discriminator,
                                          run.batches[b], run.width)]]
    /\ UNCHANGED <<gen, trainer, env, files, dirs, snap>>

\* train_generator_step on each of the two batches, with the same
\* teacher-forcing draws
PaddingGeneratorStep ==
    /\ run.pc = "g_step"
    /\ \E forced \in [1..run.width ->
                        ForcedChoices(TRUE, run.teacher_forcing_ratio)] :
        run' = [run EXCEPT
                !.pc = "g_done",
                !.forced = forced,
                !.g_metrics = [b \in 1..2 |->
                    generator_metrics(run.variant, trainer.generator,
                                      trainer.discriminator,
                                      run.batches[b], forced, run.width)]]
    /\ UNCHANGED <<gen, trainer, env, files, dirs, snap>>

PaddingNext ==
    \/ PaddingDiscriminatorStep
    \/ PaddingGeneratorStep

SpecPadding == PaddingInit /\ [][PaddingNext]_vars

\* C8: the critic scores of the real and the fake sequences and every
\* generator loss term are the same for two batches that differ only in
\* the values at padded positions.
C8_PaddingNonInterference ==
    /\ run.pc \in {"g_step", "g_done"} => run.d_metrics[1] = run.d_metrics[2]
    /\ run.pc = "g_done" => run.g_metrics[1] = run.g_metrics[2]

\* The same for padded values below SqrtFloatMax
PaddingNonInterferenceInRange ==
    (\A b \in 1..2 : \A k \in 1..Len(run.pads[b]) :
        run.pads[b][k] < SqrtFloatMax)
    => C8_PaddingNonInterference

\* two batches with different finite padding, a padded step that was forced
\* and equal metrics
PaddingWitness ==
    /\ run.pc = "g_done"
    /\ run.pads[1] # run.pads[2]
    /\ \E i \in Batch : \E k \in 1..run.width :
          /\ k > run.batches[1].lengths[i] /\ k < run.width /\ run.forced[k]
    /\ run.g_metrics[1] = run.g_metrics[2]

(***************************************************************************)
(* Trainer.get_teacher_forcing_ratio.  Ratios are in thousandths; the      *)
(* value start - (epoch / decay) * (start - end) is kept as an exact       *)
(* fraction over decay.                                                    *)
(***************************************************************************)
get_teacher_forcing_ratio_gt(t) ==
    LET c == t.config
    IN  IF t.epoch > c.teacher_forcing_decay_epochs
        THEN Num(c.teacher_forcing_end, 1)
        ELSE IF c.teacher_forcing_decay_epochs = 0 THEN Raised
        ELSE Num(c.teacher_forcing_start * c.teacher_forcing_decay_epochs
                   - t.epoch * (c.teacher_forcing_start - c.teacher_forcing_end),
                 c.teacher_forcing_decay_epochs)

get_teacher_forcing_ratio(t) ==
    LET c == t.config
    IN  IF t.epoch >= c.teacher_forcing_decay_epochs
        THEN Num(c.teacher_forcing_end, 1)
        ELSE IF c.teacher_forcing_decay_epochs = 0 THEN Raised
        ELSE Num(c.teacher_forcing_start * c.teacher_forcing_decay_epochs
                   - t.epoch * (c.teacher_forcing_start - c.teacher_forcing_end),
                 c.teacher_forcing_decay_epochs)

\* The epochs at which the schedule is evaluated
MaxEpoch == 5

\* Values of teacher_forcing_start / teacher_forcing_end (thousandths) and
\* of teacher_forcing_decay_epochs
RatioValues == {0, 500, 1000}
DecayValues == {0, 1, 2, 3}

\* A Trainer at epoch 0 whose ratio has been read once
ScheduleInit ==
    /\ gen = [pc |-> "none"]
    /\ env = [num_epochs |-> 0] /\ files = <<>> /\ dirs = {} /\ snap = <<>>
    /\ \E st \in RatioValues, en \in RatioValues, de \in DecayValues :
        LET t == [epoch |-> 0,
                  config |-> [teacher_forcing_start |-> st,
                              teacher_forcing_end |-> en,
                              teacher_forcing_decay_epochs |-> de]]
        IN  /\ trainer = t
            /\ run = [pc |-> "schedule",
                      ratios |-> <<get_teacher_forcing_ratio(t)>>]

\* "self.epoch = epoch" of the next epoch, and the ratio read in it
NextEpochRatio ==
    /\ run.pc = "schedule"
    /\ trainer.epoch < MaxEpoch
    /\ trainer' = [trainer EXCEPT !.epoch = trainer.epoch + 1]
    /\ run' = [run EXCEPT
                !.ratios = Append(run.ratios,
                                  get_teacher_forcing_ratio(trainer'))]
    /\ UNCHANGED <<gen, env, files, dirs, snap>>

SpecSchedule == ScheduleInit /\ [][NextEpochRatio]_vars

\* run.ratios[e + 1] is the ratio read at epoch e
RatioAt(e) == run.ratios[e + 1]
EpochsRead == 0..(Len(run.ratios) - 1)

\* C5 as stated: non-increasing in the epoch, teacher_forcing_start at
\* epoch 0, teacher_forcing_end from teacher_forcing_decay_epochs on.
C5_AsStated ==
    run.pc = "schedule" =>
        /\ \A e1, e2 \in EpochsRead :
              e1 <= e2 => ~FLess(RatioAt(e1), RatioAt(e2))
        /\ FEq(RatioAt(0), Num(trainer.config.teacher_forcing_start, 1))
        /\ \A e \in EpochsRead :
              e >= trainer.config.teacher_forcing_decay_epochs =>
                  FEq(RatioAt(e), Num(trainer.config.teacher_forcing_end, 1))

\* C5 (amended): the ratio is teacher_forcing_end from
\* teacher_forcing_decay_epochs on (also for 0, and it never divides by
\* zero); it is teacher_forcing_start at epoch 0 when decay_epochs > 0; it
\* is non-increasing in the epoch when start >= end, non-decreasing when
\* start <= end.
C5_Schedule ==
    run.pc = "schedule" =>
        LET c == trainer.config
        IN  /\ \A e \in EpochsRead : RatioAt(e).kind = "num"
            /\ \A e \in EpochsRead :
                  e >= c.teacher_forcing_decay_epochs =>
                      FEq(RatioAt(e), Num(c.teacher_forcing_end, 1))
            /\ c.teacher_forcing_decay_epochs > 0 =>
                  FEq(RatioAt(0), Num(c.teacher_forcing_start, 1))
            /\ \A e1, e2 \in EpochsRead :
                  e1 <= e2 =>
                    /\ c.teacher_forcing_start >= c.teacher_forcing_end =>
                          ~FLess(RatioAt(e1), RatioAt(e2))
                    /\ c.teacher_forcing_start <= c.teacher_forcing_end =>
                          ~FLess(RatioAt(e2), RatioAt(e1))

\* a decay over three epochs that was read at, before and after its end
C5_Witness ==
    /\ run.pc = "schedule"
    /\ trainer.config.teacher_forcing_decay_epochs = 3
    /\ trainer.config.teacher_forcing_start = 1000
    /\ trainer.config.teacher_forcing_end = 0
    /\ Len(run.ratios) = 5
    /\ FLess(RatioAt(2), RatioAt(1))
    /\ FLess(Num(0, 1), RatioAt(2))
    /\ FEq(RatioAt(4), Num(0, 1))

(***************************************************************************)
(* Properties of Trainer.train_epoch and Trainer.train                     *)
(***************************************************************************)
\* the p-th optimizer update of an epoch when every batch gets n_critic
\* critic updates followed by one generator update
OrderedUpdate(p) ==
    LET n == trainer.config.n_critic
        b == ((p - 1) \div (n + 1)) + 1
    IN  IF (p - 1) % (n + 1) < n THEN <<"D", b>> ELSE <<"G", b>>

Running == run.pc \in {"critic", "epoch_end", "finished", "returned"}

\* C3: per batch, n_critic critic updates, then exactly one generator
\* update, and the batches follow each other without overlap.
C3_UpdateOrder ==
    Running =>
        /\ \A p \in 1..Len(run.updates) : run.updates[p] = OrderedUpdate(p)
        /\ run.pc # "critic" =>
              Len(run.updates) = env.num_batches * (trainer.config.n_critic + 1)

C3_Witness ==
    /\ run.pc = "epoch_end"
    /\ trainer.config.n_critic = 2
    /\ env.num_batches = 2
    /\ run.updates = <<<<"D", 1>>, <<"D", 1>>, <<"G", 1>>,
                       <<"D", 2>>, <<"D", 2>>, <<"G", 2>>>>

\* C4: the patience counter is reset by an improving epoch and incremented
\* by one otherwise; the run ends after the epoch iff the counter has reached
\* config.patience or the epoch was num_epochs - 1, and never by an error.
C4_PatienceAndStop ==
    [][run.pc = "epoch_end" =>
        /\ trainer'.patience_counter =
              IF FLess(combined_loss, trainer.best_loss)
              THEN 0 ELSE trainer.patience_counter + 1
        /\ run'.pc \in {"finished", "epoch_begin"}
        /\ (run'.pc = "finished") <=>
              \/ trainer'.patience_counter >= trainer.config.patience
              \/ run.epoch = env.num_epochs - 1
        /\ run'.pc = "epoch_begin" => run'.epoch = run.epoch + 1
        /\ run'.early_stop <=>
              trainer'.patience_counter >= trainer.config.patience]_vars

C4_Witness ==
    /\ run.pc = "returned"
    /\ run.early_stop
    /\ trainer.config.patience = 2
    /\ trainer.patience_counter = 2
    /\ trainer.epoch >= 4
    /\ trainer.epoch < env.num_epochs - 1

\* the file the '_best' copy of epoch e's checkpoint is meant to be
BestCopyPath(e) ==
    env.checkpoint_dir \o <<"/", "checkpoint_epoch_", ToString(e), "_best", ".pt">>

InSeq(x, sq) == \E k \in 1..Len(sq) : sq[k] = x

\* C7: at the end of epoch e the checkpoint of e is written iff e % 10 = 0
\* or e set a new best, and its '_best' copy iff e set a new best.
C7_CheckpointIff ==
    [][run.pc = "epoch_end" =>
        LET new_best == FLess(combined_loss, trainer.best_loss)
            path == checkpoint_path(env.checkpoint_dir, run.epoch)
        IN  /\ InSeq(path, run'.written) <=> (run.epoch % 10 = 0 \/ new_best)
            /\ InSeq(BestCopyPath(run.epoch), run'.written) <=> new_best
            /\ \A k \in 1..Len(run'.written) :
                  run'.written[k] \in {path, BestCopyPath(run.epoch)}]_vars

\* C6: a checkpoint loaded into a fresh Trainer gives the parameters, the
\* epoch and best_loss of the Trainer that saved it, and saving right after
\* the load stores the same parameters again.
C6_RoundTrip ==
    /\ run.pc \in {"loaded", "resaved"} =>
          /\ trainer.generator = snap[run.loaded].generator
          /\ trainer.discriminator = snap[run.loaded].discriminator
          /\ trainer.epoch = snap[run.loaded].epoch
          /\ trainer.best_loss = snap[run.loaded].best_loss
    /\ run.pc = "resaved" =>
          \A k \in 1..Len(run.written) :
              /\ files[run.written[k]].generator_state_dict
                    = snap[run.loaded].generator
              /\ files[run.written[k]].discriminator_state_dict
                    = snap[run.loaded].discriminator

\* the fresh Trainer differed from the saved one in both networks
C6_Witness ==
    /\ run.pc = "resaved"
    /\ Len(run.written) = 2
    /\ snap[run.loaded].epoch >= 1
    /\ snap[run.loaded].generator # snap[run.loaded].discriminator

(***************************************************************************)
(* Inference entry points: TrajectoryGenerator.generate                    *)
(* (mouse_trajectory_gan/inference.py) and KeystrokeGenerator.generate     *)
(* (keyboard_dynamics_gan/inference.py).  run is the call, gen the run of  *)
(* the generator it makes on a batch of num_samples rows.                  *)
(***************************************************************************)
\* config.vocab_size
vocab_size == 128

\* Code points of the characters of the texts: 'a', 'b', and U+00E1
CodePoints == {97, 98, 225}

\* The texts of the model: 1..MaxWidth characters
Texts == UNION {[1..n -> CodePoints] : n \in 1..MaxWidth}

\* "char_ids = [ord(c) % self.config.vocab_size for c in text]"
text_to_char_ids_raw(text) == text
text_to_char_ids(text) == [k \in 1..Len(text) |-> text[k] % vocab_size]

\* np.cumsum
cumsum(xs) == [k \in 1..Len(xs) |-> SumSeq(SubSeq(xs, 1, k))]

\* The duration channels of the first n steps of a generated sequence
Channel(steps, n, c) == [k \in 1..n |-> steps[k][c]]

\* "timestamps = np.zeros(length + 1); timestamps[1:] = np.cumsum(dts)"
trajectory_timestamps_unshifted(dts) == cumsum(dts)
trajectory_timestamps(dts) == <<0>> \o cumsum(dts)

\* "timestamps[k] = timestamps[k - 1] + hold_times[k - 1] + flight_times[k - 1]"
\* for k in range(1, seq_len), from np.zeros(seq_len)
keystroke_timestamps(hold_times, flight_times) ==
    [k \in 1..Len(hold_times) |->
        SumSeq([j \in 1..(k - 1) |-> hold_times[j] + flight_times[j]])]

\* A loaded generator, before a call
InferenceInit ==
    /\ trainer = [epoch |-> 0] /\ env = [num_epochs |-> 0]
    /\ files = <<>> /\ dirs = {} /\ snap = <<>>
    /\ gen = [pc |-> "none"]
    /\ \E variant \in {"keystroke", "trajectory"}, w \in {0, 1},
          th \in Thresholds :
        run = [pc |-> "loaded", variant |-> variant, w |-> w,
               distance_threshold |-> th]

\* TrajectoryGenerator.generate up to the loop of Generator.generate
\* (inference.py lines 124-140, generator.py lines 193-213)
TrajectoryGenerate ==
    /\ UNCHANGED <<trainer, env, files, dirs, snap>>
    /\ run.pc = "loaded" /\ run.variant = "trajectory"
    /\ \E n \in 1..BatchSize, start \in StartPoints, end \in EndPoints :
        \E z \in [1..n -> Latents] :
            /\ run' = [pc |-> "generating", variant |-> "trajectory",
                       num_samples |-> n, start |-> start, z |-> z,
                       results |-> <<>>]
            /\ gen' = [pc |-> "loop",
                       w |-> run.w,
                       distance_threshold |-> run.distance_threshold,
                       start |-> [i \in 1..n |-> start],
                       end |-> [i \in 1..n |-> end],
                       condition |-> [i \in 1..n |->
                           compute_condition(run.w, start, end, z[i])],
                       h |-> [i \in 1..n |-> 0],
                       current_input |-> [i \in 1..n |-> initial_input],
                       current_pos |-> [i \in 1..n |-> start],
                       done |-> [i \in 1..n |-> FALSE],
                       lengths |-> [i \in 1..n |-> 0],
                       outputs |-> [i \in 1..n |-> <<>>],
                       t |-> 0]

\* KeystrokeGenerator.generate up to the loop of Generator.forward
\* (inference.py lines 120-138, generator.py lines 156-163 and 87-102)
KeystrokeGenerate ==
    /\ UNCHANGED <<trainer, env, files, dirs, snap>>
    /\ run.pc = "loaded" /\ run.variant = "keystroke"
    /\ \E n \in 1..BatchSize, text \in Texts :
        \E z \in [1..n -> Latents] :
            LET char_ids == text_to_char_ids(text)
                seq_len == Len(char_ids)
            IN  /\ run' = [pc |-> "generating", variant |-> "keystroke",
                           num_samples |-> n, text |-> text, z |-> z,
                           results |-> <<>>]
                /\ gen' = [pc |-> "forward",
                           variant |-> "keystroke",
                           w |-> run.w,
                           teacher_forcing_ratio |-> 0,
                           has_target |-> FALSE,
                           has_lengths |-> TRUE,
                           width |-> seq_len,
                           lengths |-> [i \in 1..n |-> seq_len],
                           context |-> [i \in 1..n |->
                               [char_ids |-> char_ids,
                                condition |-> condition_encoder(run.w, z[i])]],
                           target |-> [i \in 1..n |-> <<>>],
                           max_len |-> seq_len,
                           state |-> [i \in 1..n |->
                               ForwardState("keystroke", <<0, 0>>)],
                           forced |-> <<>>,
                           t |-> 0,
                           returned_lengths |-> <<>>]

\* One Trajectory (inference.py lines 143-161), positions normalised
TrajectoryOf(i) ==
    LET length == gen.lengths[i]
        deltas == SubSeq(gen.outputs[i], 1, length)
        dts == Channel(gen.outputs[i], length, 3)
        positions == SubSeq(trajectory_to_absolute(gen.start[i], deltas),
                            1, length + 1)
    IN  [positions |-> positions,
         timestamps |-> trajectory_timestamps(dts),
         num_points |-> length + 1]

\* One KeystrokeSequence (inference.py lines 140-157)
KeystrokeSequenceOf(i) ==
    LET seq_len == gen.max_len
        hold_times == Channel(gen.state[i].outputs, seq_len, 1)
        flight_times == Channel(gen.state[i].outputs, seq_len, 2)
    IN  [characters |-> run.text,
         hold_times |-> hold_times,
         flight_times |-> flight_times,
         timestamps |-> keystroke_timestamps(hold_times, flight_times),
         num_keystrokes |-> seq_len]

\* "for i in range(num_samples): ... results.append(...)" and the return
InferenceResults ==
    /\ UNCHANGED <<trainer, env, files, dirs, snap, gen>>
    /\ run.pc = "generating"
    /\ gen.pc = IF run.variant = "trajectory" THEN "returned"
                ELSE "forward_returned"
    /\ run' = [run EXCEPT
                 !.pc = "results",
                 !.results = [i \in 1..run.num_samples |->
                     IF run.variant = "trajectory" THEN TrajectoryOf(i)
                     ELSE KeystrokeSequenceOf(i)]]

InferenceNext ==
    \/ TrajectoryGenerate
    \/ KeystrokeGenerate
    \/ GenerateStep
    \/ GenerateReturn
    \/ ForwardStep
    \/ ForwardReturn
    \/ InferenceResults

SpecInference == InferenceInit /\ [][InferenceNext]_vars

\* The steps of sample i that the call returns, as the generator emitted them
ReturnedSteps(i) ==
    IF run.variant = "trajectory"
    THEN SubSeq(gen.outputs[i], 1, gen.lengths[i])
    ELSE gen.state[i].outputs

\* The duration of a returned step: dt, or hold + flight
StepDuration(step) ==
    IF run.variant = "trajectory" THEN step[3] ELSE step[1] + step[2]

\* C16: a call with num_samples = n returns n results, result i generated
\* from row i of the latent draw; the timestamps of a result start at 0, are
\* non-decreasing, grow from one entry to the next by the duration of the
\* step between them, and have one entry per returned point (length + 1,
\* at least 2) or per keystroke (len(text)).
C16_InferenceResults ==
    run.pc = "results" =>
        /\ Len(run.results) = run.num_samples
        /\ DOMAIN run.z = 1..run.num_samples
        /\ \A i \in 1..run.num_samples :
            LET r == run.results[i]
                steps == ReturnedSteps(i)
                ts == r.timestamps
            IN  /\ IF run.variant = "trajectory"
                   THEN /\ gen.condition[i] =
                              compute_condition(gen.w, gen.start[i],
                                                gen.end[i], run.z[i])
                        /\ r.num_points = gen.lengths[i] + 1
                        /\ r.num_points >= 2
                        /\ Len(ts) = r.num_points
                        /\ Len(r.positions) = r.num_points
                   ELSE /\ gen.context[i].condition =
                              condition_encoder(gen.w, run.z[i])
                        /\ r.num_keystrokes = Len(run.text)
                        /\ Len(ts) = Len(run.text)
                        /\ Len(r.hold_times) = Len(run.text)
                        /\ Len(r.flight_times) = Len(run.text)
                /\ ts[1] = 0
                /\ \A k \in 1..(Len(ts) - 1) :
                      /\ ts[k + 1] = ts[k] + StepDuration(steps[k])
                      /\ ts[k + 1] >= ts[k]
                /\ \A j \in 1..run.num_samples :
                      run.z[i] = run.z[j] => run.results[j] = r

\* Both entry points returned two samples drawn from different latent rows
\* that differ, with at least three timestamps each
C16_Witness ==
    /\ run.pc = "results" /\ run.variant = "trajectory"
    /\ run.num_samples = 2
    /\ run.z[1] # run.z[2]
    /\ run.results[1] # run.results[2]
    /\ run.results[1].num_points >= 3
    /\ run.results[2].num_points >= 3

C16_WitnessKeystroke ==
    /\ run.pc = "results" /\ run.variant = "keystroke"
    /\ run.num_samples = 2
    /\ run.z[1] # run.z[2]
    /\ run.results[1].timestamps # run.results[2].timestamps
    /\ run.results[1].num_keystrokes >= 3

(***************************************************************************)
(* The call boundary of the keystroke generator: a direct call of          *)
(* Generator.generate / forward with arguments of any shape, and the call  *)
(* through KeystrokeGenerator.generate.                                    *)
(***************************************************************************)
\* config.latent_dim
latent_dim == 64

\* Arguments of a direct call: ids of char_ids (-1 and vocab_size are
\* outside the embedding table), the number of dimensions of char_ids and
\* the width of z
CallCharIds == {-1, 0, 97, vocab_size - 1, vocab_size}
CallRanks == {1, 2, 3}
CallLatentWidths == {1, latent_dim - 1, latent_dim}

\* "batch_size, max_len = char_ids.shape" raises unless char_ids is 2-D
shape_unpack_raises(rank) == rank # 2

\* self.condition_encoder(z): nn.Linear(config.latent_dim, ...) raises on a
\* last dimension other than latent_dim
condition_encoder_raises(z_width) == z_width # latent_dim

\* self.char_embedding(char_ids): nn.Embedding(config.vocab_size, ...)
\* raises on an index outside [0, vocab_size)
char_embedding_raises(char_ids) ==
    \E k \in 1..Len(char_ids) : char_ids[k] < 0 \/ char_ids[k] >= vocab_size

\* Lines 87-91 of Generator.forward: whether the call fails before the loop
forward_raises(rank, z_width, char_ids) ==
    \/ shape_unpack_raises(rank)
    \/ condition_encoder_raises(z_width)
    \/ char_embedding_raises(char_ids)

\* A keystroke generator, loaded, before a call
CallInit ==
    /\ trainer = [epoch |-> 0] /\ env = [num_epochs |-> 0]
    /\ files = <<>> /\ dirs = {} /\ snap = <<>>
    /\ gen = [pc |-> "none"]
    /\ \E w \in {0, 1} :
        run = [pc |-> "loaded", variant |-> "keystroke", w |-> w,
               distance_threshold |-> 0]

\* A direct call Generator.generate(char_ids, lengths, z) with one row, up
\* to the loop of forward (generator.py lines 156-165 and 87-102)
DirectGenerate ==
    /\ UNCHANGED <<trainer, env, files, dirs, snap>>
    /\ run.pc = "loaded"
    /\ \E rank \in CallRanks, z_width \in CallLatentWidths, z \in Latents,
          seq_len \in 1..2 :
        \E char_ids \in [1..seq_len -> CallCharIds] :
            /\ run' = [pc |-> IF forward_raises(rank, z_width, char_ids)
                              THEN "raised" ELSE "direct",
                       variant |-> "keystroke", num_samples |-> 1,
                       char_ids |-> char_ids, rank |-> rank,
                       z_width |-> z_width, z |-> <<z>>]
            /\ gen' = IF forward_raises(rank, z_width, char_ids) THEN gen
                      ELSE [pc |-> "forward",
                            variant |-> "keystroke",
                            w |-> run.w,
                            teacher_forcing_ratio |-> 0,
                            has_target |-> FALSE,
                            has_lengths |-> TRUE,
                            width |-> seq_len,
                            lengths |-> <<seq_len>>,
                            context |-> <<[char_ids |-> char_ids,
                                condition |-> condition_encoder(run.w, z)]>>,
                            target |-> << <<>> >>,
                            max_len |-> seq_len,
                            state |-> <<ForwardState("keystroke", <<0, 0>>)>>,
                            forced |-> <<>>,
                            t |-> 0,
                            returned_lengths |-> <<>>]

CallNext ==
    \/ DirectGenerate
    \/ KeystrokeGenerate
    \/ ForwardStep
    \/ ForwardReturn
    \/ InferenceResults

SpecCall == CallInit /\ [][CallNext]_vars

\* The call ran the generator: it is in the loop of forward or has returned
CallAccepted == gen.pc \in {"forward", "forward_returned"}

\* The arguments of the call agree with the configuration
CallConforms ==
    IF run.pc \in {"direct", "raised"}
    THEN /\ run.rank = 2
         /\ run.z_width = latent_dim
         /\ \A k \in 1..Len(run.char_ids) : run.char_ids[k] \in 0..(vocab_size - 1)
    ELSE \A k \in 1..Len(run.text) : run.text[k] \in 0..(vocab_size - 1)

\* C17: a call that violates the configuration (latent width, shape of the
\* context, a character id outside [0, vocab_size)) fails and returns no
\* sequence, both for a direct call of the generator and through
\* KeystrokeGenerator.generate.
C17_RejectedAtBoundary ==
    run.pc # "loaded" =>
        /\ CallAccepted => CallConforms
        /\ run.pc = "raised" => gen.pc = "none"

\* The direct call alone rejects every violation, and only violations
DirectCallRejected ==
    run.pc \in {"direct", "raised"} =>
        /\ CallAccepted <=> CallConforms
        /\ run.pc = "raised" <=> ~CallAccepted

\* A direct call was rejected for one out-of-range id alone
DirectCallWitness ==
    /\ run.pc = "raised" /\ run.rank = 2 /\ run.z_width = latent_dim
    /\ run.char_ids = <<97, vocab_size>>

(***************************************************************************)
(* Export wrappers: GeneratorWrapper of mouse_trajectory_gan/export.py and *)
(* of keyboard_dynamics_gan/export.py.  Both call Generator.forward        *)
(* without target.                                                         *)
(***************************************************************************)
\* A wrapper around a loaded generator, before a call
ExportInit ==
    /\ trainer = [epoch |-> 0] /\ env = [num_epochs |-> 0]
    /\ files = <<>> /\ dirs = {} /\ snap = <<>>
    /\ gen = [pc |-> "none"]
    /\ \E variant \in {"keystroke", "trajectory"}, w \in {0, 1},
          th \in Thresholds :
        run = [pc |-> "wrapped", variant |-> variant, w |-> w,
               distance_threshold |-> th]

\* Trajectory GeneratorWrapper.forward(start, end, z) up to the loop of
\* "self.generator(start, end, z)": no target, no target_lengths
TrajectoryWrapperForward ==
    /\ UNCHANGED <<trainer, env, files, dirs, snap>>
    /\ run.pc = "wrapped" /\ run.variant = "trajectory"
    /\ \E start \in [Batch -> StartPoints], end \in [Batch -> EndPoints],
          z \in [Batch -> Latents] :
        /\ run' = [run EXCEPT !.pc = "exporting"]
        /\ gen' = [pc |-> "forward",
                   variant |-> "trajectory",
                   w |-> run.w,
                   teacher_forcing_ratio |-> 0,
                   has_target |-> FALSE,
                   has_lengths |-> FALSE,
                   width |-> MaxGenSteps,
                   lengths |-> <<>>,
                   context |-> [i \in Batch |->
                       [start |-> start[i], end |-> end[i],
                        condition |-> compute_condition(run.w, start[i],
                                                        end[i], z[i])]],
                   target |-> [i \in Batch |-> <<>>],
                   max_len |-> MaxGenSteps,
                   state |-> [i \in Batch |->
                       ForwardState("trajectory", start[i])],
                   forced |-> <<>>,
                   t |-> 0,
                   returned_lengths |-> <<>>]

\* Keystroke GeneratorWrapper.forward(char_ids, z) up to the loop of
\* "self.generator(char_ids, z, target_timings=None, lengths=lengths)" with
\* lengths = torch.full((batch,), char_ids.shape[1]); char_ids is a padded
\* batch of recorded texts
KeystrokeWrapperForward ==
    /\ UNCHANGED <<trainer, env, files, dirs, snap>>
    /\ run.pc = "wrapped" /\ run.variant = "keystroke"
    /\ \E width \in 1..MaxWidth, z \in [Batch -> Latents] :
        \E true_lengths \in [Batch -> 1..width] :
            /\ run' = [run EXCEPT !.pc = "exporting"]
            /\ gen' = [pc |-> "forward",
                       variant |-> "keystroke",
                       w |-> run.w,
                       teacher_forcing_ratio |-> 0,
                       has_target |-> FALSE,
                       has_lengths |-> TRUE,
                       width |-> width,
                       lengths |-> [i \in Batch |-> width],
                       context |-> [i \in Batch |->
                           [char_ids |-> PaddedChars(i, true_lengths[i],
                                                     width),
                            condition |-> condition_encoder(run.w, z[i])]],
                       target |-> [i \in Batch |-> <<>>],
                       max_len |-> width,
                       state |-> [i \in Batch |->
                           ForwardState("keystroke", <<0, 0>>)],
                       forced |-> <<>>,
                       t |-> 0,
                       returned_lengths |-> <<>>]

\* The first step after which sequence i of the forward run is within the
\* threshold of its end point (0 if none)
FirstWithin(i, th) ==
    LET outputs == gen.state[i].outputs
        hits == {k \in 1..Len(outputs) :
                    WithinThreshold(ForcedPosition(gen.context[i].start,
                                                   outputs, k - 1),
                                    gen.context[i].end, th)}
    IN  IF hits = {} THEN 0 ELSE CHOOSE k \in hits : \A j \in hits : k <= j

\* "return sequences" / "return timings": the output of forward, untrimmed
wrapper_sequences_trimmed(i) ==
    IF gen.variant = "trajectory" /\ FirstWithin(i, run.distance_threshold) > 0
    THEN SubSeq(gen.state[i].outputs, 1,
                FirstWithin(i, run.distance_threshold))
    ELSE gen.state[i].outputs
wrapper_sequences(i) == gen.state[i].outputs

\* The return of GeneratorWrapper.forward
WrapperReturn ==
    /\ UNCHANGED <<trainer, env, files, dirs, snap, gen>>
    /\ run.pc = "exporting" /\ gen.pc = "forward_returned"
    /\ run' = [pc |-> "exported", variant |-> run.variant, w |-> run.w,
               distance_threshold |-> run.distance_threshold,
               sequences |-> [i \in Batch |-> wrapper_sequences(i)]]

ExportNext ==
    \/ TrajectoryWrapperForward
    \/ KeystrokeWrapperForward
    \/ ForwardStep
    \/ ForwardReturn
    \/ WrapperReturn

SpecExport == ExportInit /\ [][ExportNext]_vars

\* C18: the trajectory wrapper returns exactly max_generation_steps steps
\* for every sequence, also for one whose running position came within
\* distance_threshold of its end point earlier, and the keystroke wrapper
\* returns as many steps as char_ids is wide; the loop never stops early.
C18_ExportFixedSteps ==
    /\ run.pc = "exporting" /\ gen.pc = "forward_returned" =>
          gen.t = gen.max_len
    /\ run.pc = "exported" =>
          \A i \in Batch :
              /\ Len(run.sequences[i]) =
                    IF run.variant = "trajectory" THEN MaxGenSteps
                    ELSE Len(gen.context[i].char_ids)
              /\ run.sequences[i] = gen.state[i].outputs

\* A trajectory was exported in full although one of its sequences was
\* within the threshold of its end point before the last step
C18_Witness ==
    /\ run.pc = "exported" /\ run.variant = "trajectory"
    /\ \E i \in Batch :
          /\ FirstWithin(i, run.distance_threshold) \in 1..(MaxGenSteps - 1)
          /\ Len(run.sequences[i]) = MaxGenSteps

(***************************************************************************)
(* Parameter updates of the training steps.  trainer holds the value and   *)
(* the .grad of every parameter, the parameter lists the two optimizers    *)
(* were built on, and the power-iteration buffers of the critic's          *)
(* spectral_norm layers.                                                   *)
(***************************************************************************)
\* generator.parameters() and discriminator.parameters()
GeneratorParams == {"generator.lstm", "generator.output_layer"}
CriticParams == {"discriminator.lstm", "discriminator.head"}
AllParams == GeneratorParams \cup CriticParams

\* Parameter values are counted modulo ParamValues
ParamValues == 3

\* Gradient of the loss on one network at one backward pass
GradValues == {-1, 0, 1}

\* Accumulated gradients saturate at GradCap
GradCap == 2
SatGrad(g) == IF g > GradCap THEN GradCap ELSE IF g < -GradCap THEN -GradCap ELSE g

\* optimizer.zero_grad(): the .grad of the optimizer's parameters is None
zero_grad(t, group) ==
    [t EXCEPT !.has_grad = t.has_grad \ group,
              !.grad = [p \in AllParams |->
                           IF p \in group THEN 0 ELSE t.grad[p]]]

\* loss.backward(): the gradient is accumulated into the .grad of every
\* parameter the loss was computed from with gradients enabled
backward(t, reached, g) ==
    [t EXCEPT !.has_grad = t.has_grad \cup reached,
              !.grad = [p \in AllParams |->
                           IF p \in reached THEN SatGrad(t.grad[p] + g[p])
                           ELSE t.grad[p]]]

\* optimizer.step(): every parameter of the optimizer that has a .grad
\* moves against it
Adam_step_all(t, group) ==
    [t EXCEPT !.params = [p \in AllParams |->
                           IF p \in t.has_grad
                           THEN (t.params[p] - t.grad[p]) % ParamValues
                           ELSE t.params[p]]]
Adam_step(t, group) ==
    [t EXCEPT !.params = [p \in AllParams |->
                           IF p \in group /\ p \in t.has_grad
                           THEN (t.params[p] - t.grad[p]) % ParamValues
                           ELSE t.params[p]]]

\* A forward pass of the critic in training mode: every spectral_norm layer
\* runs a power iteration on its u buffer
critic_forward_train(t) ==
    [t EXCEPT !.buffers = (t.buffers + 1) % ParamValues]

\* The gradient of one backward pass: one value per network
GradOf(gg, gd) ==
    [p \in AllParams |-> IF p \in GeneratorParams THEN gg ELSE gd]

\* Trainer.__init__ (lines 38-50) on fresh networks, and the head of
\* train_epoch
ParamsInit ==
    /\ gen = [pc |-> "none"] /\ files = <<>> /\ dirs = {} /\ snap = <<>>
    /\ \E nc \in {1, 2} : env = [num_epochs |-> 0, n_critic |-> nc]
    /\ \E gw, dw \in 0..(ParamValues - 1) :
        trainer = [epoch |-> 0,
                   params |-> [p \in AllParams |->
                                  IF p \in GeneratorParams THEN gw ELSE dw],
                   grad |-> [p \in AllParams |-> 0],
                   has_grad |-> {},
                   buffers |-> 0,
                   g_optimizer |-> GeneratorParams,
                   d_optimizer |-> CriticParams,
                   generator_training |-> TRUE]
    /\ run = [pc |-> "critic", critic |-> 0, last |-> "none"]

\* train_discriminator_step: zero_grad, the fake batch under no_grad, the
\* critic on real, fake and interpolated input, backward, d_optimizer.step
TrainDiscriminatorStep ==
    /\ UNCHANGED <<gen, env, files, dirs, snap>>
    /\ run.pc = "critic" /\ run.critic < env.n_critic
    /\ \E gd \in GradValues :
        LET t1 == zero_grad(trainer, trainer.d_optimizer)
            t2 == critic_forward_train(critic_forward_train(
                      critic_forward_train(t1)))
            t3 == backward(t2, CriticParams, GradOf(0, gd))
        IN  trainer' = Adam_step(t3, trainer.d_optimizer)
    /\ run' = [run EXCEPT !.critic = run.critic + 1,
                          !.last = "train_discriminator_step"]

\* train_generator_step: zero_grad, the fake batch with gradients, the
\* critic on it, backward through critic and generator, g_optimizer.step
TrainGeneratorStep ==
    /\ UNCHANGED <<gen, env, files, dirs, snap>>
    /\ run.pc = "critic" /\ run.critic >= env.n_critic
    /\ \E gg \in GradValues, gd \in GradValues :
        LET t1 == zero_grad(trainer, trainer.g_optimizer)
            t2 == critic_forward_train(t1)
            t3 == backward(t2, AllParams, GradOf(gg, gd))
        IN  trainer' = Adam_step(t3, trainer.g_optimizer)
    /\ run' = [run EXCEPT !.critic = 0, !.pc = "batch_end",
                          !.last = "train_generator_step"]

\* "for batch in dataloader": the next batch, or the end of the epoch
NextBatch ==
    /\ UNCHANGED <<gen, trainer, env, files, dirs, snap>>
    /\ run.pc = "batch_end"
    /\ \E more \in BOOLEAN :
        run' = [run EXCEPT !.pc = IF more THEN "critic" ELSE "epoch_end",
                           !.last = "train_epoch"]

\* log_metrics and log_trajectories / log_timing_samples after an epoch:
\* generator.eval(), samples under no_grad, generator.train(); then the
\* train() calls at the head of the next train_epoch
LogSamples ==
    /\ UNCHANGED <<gen, env, files, dirs, snap>>
    /\ run.pc = "epoch_end"
    /\ trainer' = [trainer EXCEPT !.generator_training = TRUE,
                                  !.epoch = (trainer.epoch + 1) % 2]
    /\ run' = [run EXCEPT !.pc = "critic", !.last = "log"]

ParamsNext ==
    \/ TrainDiscriminatorStep
    \/ TrainGeneratorStep
    \/ NextBatch
    \/ LogSamples

SpecParams == ParamsInit /\ [][ParamsNext]_vars

\* The values of a set of parameters
ValuesOf(t, ps) == [p \in ps |-> t.params[p]]

\* C19: in every step of training, the generator's parameters change only
\* in train_generator_step and the critic's only in
\* train_discriminator_step; a critic update leaves every generator
\* parameter unchanged, a generator update every critic parameter, and
\* logging and sampling leave all of them unchanged.
C19_UpdateOwnership ==
    [][/\ ValuesOf(trainer', GeneratorParams) # ValuesOf(trainer, GeneratorParams)
          => run'.last = "train_generator_step"
       /\ ValuesOf(trainer', CriticParams) # ValuesOf(trainer, CriticParams)
          => run'.last = "train_discriminator_step"
       /\ run'.last \in {"log", "train_epoch"}
          => ValuesOf(trainer', AllParams) = ValuesOf(trainer, AllParams)]_vars

\* After a generator step that moved the generator, the critic's parameters
\* hold a gradient of that step and the value the last critic step gave them
C19_Witness ==
    /\ run.last = "train_generator_step"
    /\ CriticParams \subseteq trainer.has_grad
    /\ \A p \in CriticParams : trainer.grad[p] # 0
    /\ \A p \in GeneratorParams : trainer.grad[p] # 0
    /\ trainer.buffers # 0

(***************************************************************************)
(* Learning-rate schedules: the two ReduceLROnPlateau schedulers of        *)
(* Trainer.__init__ (mode="min", cooldown 0, relative threshold 1e-4) and  *)
(* their steps in Trainer.train.  Learning rates are integers of a unit    *)
(* in which lr * lr_factor is exact whenever it is not below min_lr.       *)
(***************************************************************************)
\* ReduceLROnPlateau.is_better, mode "min", threshold_mode "rel":
\* a < best * (1 - 1e-4)
is_better(a, best) ==
    FLess(a, IF best.kind = "num"
             THEN Num(best.num * 9999, best.den * 10000) ELSE best)

\* ReduceLROnPlateau._reduce_lr for the one parameter group:
\* new_lr = max(old_lr * factor, min_lr), written if old_lr - new_lr > eps
reduce_lr(old_lr, config) ==
    LET new_lr == IF old_lr * config.lr_factor.num
                        < config.min_lr * config.lr_factor.den
                  THEN config.min_lr
                  ELSE (old_lr * config.lr_factor.num) \div config.lr_factor.den
    IN  IF old_lr - new_lr > 0 THEN new_lr ELSE old_lr

\* ReduceLROnPlateau.step(metrics)
ReduceLROnPlateau_step(s, config, current) ==
    LET better == is_better(current, s.best)
        num_bad_epochs == IF better THEN 0 ELSE s.num_bad_epochs + 1
        reduce == num_bad_epochs > config.lr_patience
    IN  [lr |-> IF reduce THEN reduce_lr(s.lr, config) ELSE s.lr,
         best |-> IF better THEN current ELSE s.best,
         num_bad_epochs |-> IF reduce THEN 0 ELSE num_bad_epochs]

\* ReduceLROnPlateau(optimizer, mode="min", ...) on an optimizer of
\* lr = config.learning_rate
NewScheduler(config) ==
    [lr |-> config.learning_rate, best |-> Inf, num_bad_epochs |-> 0]

\* The per-epoch means metrics["g_loss"], metrics["d_loss"] of the model
EpochLossValues == {Num(-1, 1), Num(1, 1), NaN}

\* "self.g_scheduler.step(metrics["g_loss"])" and
\* "self.d_scheduler.step(metrics["d_loss"])": the metric each one reads
d_scheduler_metric_g_loss(metrics) == metrics.g_loss
d_scheduler_metric(metrics) == metrics.d_loss
g_scheduler_metric(metrics) == metrics.g_loss

\* Trainer.__init__, lines 45-65
SchedulerInit ==
    /\ gen = [pc |-> "none"] /\ files = <<>> /\ dirs = {} /\ snap = <<>>
    /\ \E lr \in {2, 8}, pa \in {0, 1} :
        /\ env = [num_epochs |-> MaxEpoch,
                  config |-> [learning_rate |-> lr,
                              lr_factor |-> [num |-> 1, den |-> 2],
                              lr_patience |-> pa,
                              min_lr |-> 3]]
        /\ trainer = [epoch |-> 0,
                      g_scheduler |-> NewScheduler(env.config),
                      d_scheduler |-> NewScheduler(env.config)]
    /\ run = [pc |-> "training",
              metrics |-> [g_loss |-> NaN, d_loss |-> NaN]]

\* One epoch of Trainer.train as far as the schedulers go: the epoch's
\* metrics and lines 441-443
SchedulerSteps ==
    /\ UNCHANGED <<gen, env, files, dirs, snap>>
    /\ run.pc = "training"
    /\ trainer.epoch < env.num_epochs
    /\ \E g_loss \in EpochLossValues, d_loss \in EpochLossValues :
        LET metrics == [g_loss |-> g_loss, d_loss |-> d_loss]
        IN  /\ trainer' = [trainer EXCEPT
                  !.epoch = trainer.epoch + 1,
                  !.g_scheduler = ReduceLROnPlateau_step(
                      trainer.g_scheduler, env.config,
                      g_scheduler_metric(metrics)),
                  !.d_scheduler = ReduceLROnPlateau_step(
                      trainer.d_scheduler, env.config,
                      d_scheduler_metric(metrics))]
            /\ run' = [run EXCEPT !.metrics = metrics]

\* The end of the loop and the return of Trainer.train
SchedulerReturn ==
    /\ UNCHANGED <<gen, trainer, env, files, dirs, snap>>
    /\ run.pc = "training"
    /\ run' = [run EXCEPT !.pc = "returned"]

SchedulerNext ==
    \/ SchedulerSteps
    \/ SchedulerReturn

SpecScheduler == SchedulerInit /\ [][SchedulerNext]_vars

\* One scheduler over one epoch: its learning rate does not rise, stays at
\* or above min_lr when it started there, and changes only when this
\* epoch's loss is the (lr_patience + 1)-th in a row that is not better
LrStepOk(s, s2, current, config) ==
    /\ s2.lr <= s.lr
    /\ config.learning_rate >= config.min_lr => s2.lr >= config.min_lr
    /\ s2.lr # s.lr =>
          /\ ~is_better(current, s.best)
          /\ s.num_bad_epochs >= config.lr_patience
          /\ s2.num_bad_epochs = 0

\* Each scheduler's next state is a function of its own state and its own
\* loss of the epoch
SchedulersIndependent ==
    /\ trainer'.g_scheduler =
          ReduceLROnPlateau_step(trainer.g_scheduler, env.config,
                                 run'.metrics.g_loss)
    /\ trainer'.d_scheduler =
          ReduceLROnPlateau_step(trainer.d_scheduler, env.config,
                                 run'.metrics.d_loss)

\* C20 as stated: the schedules are independent, non-increasing, never
\* below min_lr, and a learning rate changes only by multiplication with
\* lr_factor after lr_patience epochs without improvement of its own loss.
C20_AsStated ==
    [][trainer'.epoch # trainer.epoch =>
        /\ SchedulersIndependent
        /\ LrStepOk(trainer.g_scheduler, trainer'.g_scheduler,
                    run'.metrics.g_loss, env.config)
        /\ LrStepOk(trainer.d_scheduler, trainer'.d_scheduler,
                    run'.metrics.d_loss, env.config)
        /\ \A k \in {"g_scheduler", "d_scheduler"} :
              trainer'[k].lr # trainer[k].lr =>
                  trainer'[k].lr * env.config.lr_factor.den
                      = trainer[k].lr * env.config.lr_factor.num]_vars

\* C20: the schedules are independent, non-increasing, never below min_lr,
\* and a learning rate changes only to max(lr * lr_factor, min_lr), at an
\* epoch that is the (lr_patience + 1)-th in a row without improvement of
\* its own loss.
C20_Schedules ==
    [][trainer'.epoch # trainer.epoch =>
        /\ SchedulersIndependent
        /\ LrStepOk(trainer.g_scheduler, trainer'.g_scheduler,
                    run'.metrics.g_loss, env.config)
        /\ LrStepOk(trainer.d_scheduler, trainer'.d_scheduler,
                    run'.metrics.d_loss, env.config)
        /\ \A k \in {"g_scheduler", "d_scheduler"} :
              trainer'[k].lr # trainer[k].lr =>
                  /\ trainer[k].num_bad_epochs = env.config.lr_patience
                  /\ \/ trainer'[k].lr * env.config.lr_factor.den
                            = trainer[k].lr * env.config.lr_factor.num
                     \/ /\ trainer'[k].lr = env.config.min_lr
                        /\ trainer[k].lr * env.config.lr_factor.num
                              < env.config.min_lr * env.config.lr_factor.den]_vars

\* The generator's learning rate was halved and then clamped to min_lr
\* while the critic's was never reduced
C20_Witness ==
    /\ trainer.g_scheduler.lr = env.config.min_lr
    /\ env.config.learning_rate = 8
    /\ trainer.d_scheduler.lr = env.config.learning_rate
    /\ trainer.d_scheduler.best.kind = "num"

(***************************************************************************)
(* Datasets: MouseTrajectoryDataset (mouse_trajectory_gan/data/dataset.py) *)
(* and KeystrokeDataset (keyboard_dynamics_gan/data/dataset.py).  run is   *)
(* the dataset under construction and the batch collated from it.          *)
(* Trajectory dts are in microseconds, keystroke durations in units of     *)
(* 10 microseconds; a normalised coordinate is the numerator over the      *)
(* screen size.                                                            *)
(***************************************************************************)
\* The longest raw input of the model (points or keystrokes)
MaxPoints == 5

\* The raw inputs a dataset is loaded from, in the order of the files
RawInputs == {1, 2}

\* config.screen_width, config.screen_height of the model
screen == <<4, 2>>

\* The raw values of the k-th point of a recorded trajectory of kind c:
\* kind 1 is clean, kind 2 holds zero and negative dt
RawPoint(c, k) ==
    [x |-> k % 5, y |-> (c + k) % 3,
     dt |-> IF c = 1 THEN 8000 ELSE ((k % 3) - 1) * 4000]

\* The raw values of the k-th keystroke of a recorded group of kind c
RawKeystroke(c, k) ==
    [char |-> 97 + ((c + k) % 2),
     hold_time |-> IF c = 1 THEN 8000 + 1000 * (k % 2) ELSE ((k % 3) - 1) * 500,
     flight_time |-> IF c = 1 THEN 4000 ELSE (((k + 1) % 3) - 1) * 700]

RawKinds == {1, 2}

\* len(CMU_HOLD_KEYS), len(CMU_FLIGHT_KEYS)
CmuHoldKeys == 11
CmuFlightKeys == 10

\* CMU_CHAR_SEQUENCE
CMU_CHAR_SEQUENCE == <<46, 116, 105, 101, 53, 82, 111, 97, 110, 108, 10>>

\* np.maximum(dts, 1e-6)
dt_floor_none(dt) == dt
dt_floor(dt) == IF dt < 1 THEN 1 ELSE dt

\* np.maximum(arr, 0.0)
clamp_negative(v) == IF v < 0 THEN 0 ELSE v

\* MouseTrajectoryDataset._process_trajectory: the list of stored
\* trajectories after the call
process_trajectory(trajectories, points0, config) ==
    IF Len(points0) < config.min_length THEN trajectories
    ELSE LET points == IF Len(points0) > config.max_length
                       THEN SubSeq(points0, 1, config.max_length)
                       ELSE points0
             deltas == [k \in 1..(Len(points) - 1) |->
                           <<points[k + 1].x - points[k].x,
                             points[k + 1].y - points[k].y>>]
             dts == [k \in 1..(Len(points) - 1) |-> dt_floor(points[k + 1].dt)]
         IN  Append(trajectories,
                    [start |-> <<points[1].x, points[1].y>>,
                     end |-> <<points[Len(points)].x, points[Len(points)].y>>,
                     deltas |-> deltas,
                     dts |-> dts,
                     length |-> Len(deltas)])

\* KeystrokeDataset._add_sequence: the list of stored sequences after the
\* call
add_sequence(sequences, char_ids, hold_times, flight_times, config) ==
    IF Len(char_ids) < config.min_length THEN sequences
    ELSE LET length == IF Len(char_ids) > config.max_length
                       THEN config.max_length ELSE Len(char_ids)
             Cut(s) == IF Len(char_ids) > config.max_length
                       THEN SubSeq(s, 1, config.max_length) ELSE s
         IN  Append(sequences,
                    [char_ids |-> Cut(char_ids),
                     hold_times |-> [k \in 1..Len(Cut(hold_times)) |->
                                        clamp_negative(Cut(hold_times)[k])],
                     flight_times |-> [k \in 1..Len(Cut(flight_times)) |->
                                          clamp_negative(Cut(flight_times)[k])],
                     length |-> length])

\* One mirrored copy of a stored trajectory: flips of x and / or y
mirrored(traj, fx, fy) ==
    LET Flip(p) == <<IF fx THEN screen[1] - p[1] ELSE p[1],
                     IF fy THEN screen[2] - p[2] ELSE p[2]>>
    IN  [start |-> Flip(traj.start),
         end |-> Flip(traj.end),
         deltas |-> [k \in 1..Len(traj.deltas) |->
                        <<IF fx THEN -traj.deltas[k][1] ELSE traj.deltas[k][1],
                          IF fy THEN -traj.deltas[k][2] ELSE traj.deltas[k][2]>>],
         dts |-> traj.dts,
         length |-> traj.length]

\* MouseTrajectoryDataset._augment_trajectories
RECURSIVE mirrors_of(_)
mirrors_of(trajectories) ==
    IF trajectories = <<>> THEN <<>>
    ELSE <<mirrored(Head(trajectories), TRUE, FALSE),
           mirrored(Head(trajectories), FALSE, TRUE),
           mirrored(Head(trajectories), TRUE, TRUE)>>
         \o mirrors_of(Tail(trajectories))
augment_trajectories(trajectories) == trajectories \o mirrors_of(trajectories)

\* The draws of "scale = 0.85 + torch.rand(1).item() * 0.30", in percent
Scales == {85, 115}

\* KeystrokeDataset._augment_sequences for the draws scales[k]
augment_sequences(sequences, scales) ==
    sequences \o
    [k \in 1..Len(sequences) |->
        [char_ids |-> sequences[k].char_ids,
         hold_times |-> [j \in 1..Len(sequences[k].hold_times) |->
                            (sequences[k].hold_times[j] * scales[k]) \div 100],
         flight_times |-> [j \in 1..Len(sequences[k].flight_times) |->
                            (sequences[k].flight_times[j] * scales[k]) \div 100],
         length |-> sequences[k].length]]

\* A dataset object at the start of __init__
DatasetInit ==
    /\ gen = [pc |-> "none"] /\ trainer = [epoch |-> 0]
    /\ files = <<>> /\ dirs = {} /\ snap = <<>>
    /\ \E variant \in {"keystroke", "trajectory"}, max_length \in {4, 11} :
        /\ env = [num_epochs |-> 0,
                  config |-> [min_length |-> 2, max_length |-> max_length]]
        /\ run = [pc |-> "loading", variant |-> variant, items |-> <<>>,
                  raw |-> 0]

\* _load_csv / _load_kaggle_json / _load_iographica handing one raw
\* trajectory to _process_trajectory
ProcessTrajectory ==
    /\ UNCHANGED <<gen, trainer, env, files, dirs, snap>>
    /\ run.pc = "loading" /\ run.variant = "trajectory" /\ run.raw + 1 \in RawInputs
    /\ \E n \in 1..MaxPoints, c \in RawKinds :
        run' = [run EXCEPT
                  !.raw = run.raw + 1,
                  !.items = process_trajectory(run.items,
                                [k \in 1..n |-> RawPoint(c, k)], env.config)]

\* _load_generic handing one (subject, session) group to _add_sequence
LoadGeneric ==
    /\ UNCHANGED <<gen, trainer, env, files, dirs, snap>>
    /\ run.pc = "loading" /\ run.variant = "keystroke" /\ run.raw + 1 \in RawInputs
    /\ \E n \in 1..MaxPoints, c \in RawKinds :
        run' = [run EXCEPT
                  !.raw = run.raw + 1,
                  !.items = add_sequence(run.items,
                                [k \in 1..n |-> RawKeystroke(c, k).char],
                                [k \in 1..n |-> RawKeystroke(c, k).hold_time],
                                [k \in 1..n |-> RawKeystroke(c, k).flight_time],
                                env.config)]

\* _load_cmu on one row: a row that lacks a column is skipped, a complete
\* one gets a flight time of 0.0 for its last key
LoadCmuRow ==
    /\ UNCHANGED <<gen, trainer, env, files, dirs, snap>>
    /\ run.pc = "loading" /\ run.variant = "keystroke" /\ run.raw + 1 \in RawInputs
    /\ \E complete \in BOOLEAN, c \in RawKinds :
        LET hold_times == [k \in 1..CmuHoldKeys |->
                              RawKeystroke(c, k).hold_time]
            flight_times == [k \in 1..CmuFlightKeys |->
                                RawKeystroke(c, k).flight_time]
        IN  run' = [run EXCEPT
                      !.raw = run.raw + 1,
                      !.items = IF ~complete THEN run.items
                                ELSE add_sequence(run.items, CMU_CHAR_SEQUENCE,
                                         hold_times,
                                         Append(flight_times, 0),
                                         env.config)]

\* The end of __init__: the augmentation when augment is set.  The
\* trajectory dataset raises on an empty list.
Augment ==
    /\ UNCHANGED <<gen, trainer, env, files, dirs, snap>>
    /\ run.pc = "loading"
    /\ \E augment \in BOOLEAN :
        IF run.variant = "trajectory"
        THEN run' = [run EXCEPT
                       !.pc = IF run.items = <<>> THEN "raised" ELSE "loaded",
                       !.items = IF augment
                                 THEN augment_trajectories(run.items)
                                 ELSE run.items]
        ELSE \E scales \in [1..Len(run.items) -> Scales] :
                run' = [run EXCEPT
                          !.pc = "loaded",
                          !.items = IF augment
                                    THEN augment_sequences(run.items, scales)
                                    ELSE run.items]

\* sorted(batch, key=lambda x: x["length"], reverse=True): a stable sort,
\* items of equal length keep their order
RECURSIVE insert_by_length(_, _)
insert_by_length(sorted, item) ==
    IF sorted = <<>> THEN <<item>>
    ELSE IF Head(sorted).length >= item.length
         THEN <<Head(sorted)>> \o insert_by_length(Tail(sorted), item)
         ELSE <<item>> \o sorted
RECURSIVE sorted_by_length(_)
unsorted(batch) == batch
sorted_by_length(batch) ==
    IF batch = <<>> THEN <<>>
    ELSE insert_by_length(sorted_by_length(SubSeq(batch, 1, Len(batch) - 1)),
                          batch[Len(batch)])

\* The largest length of a list of items
RECURSIVE max_length_of(_)
max_length_of(batch) ==
    IF batch = <<>> THEN 0
    ELSE LET m == max_length_of(Tail(batch))
         IN  IF Head(batch).length > m THEN Head(batch).length ELSE m

\* pad_sequence(sequences, batch_first=True, padding_value=pad)
pad_sequence(sequences, width, pad) ==
    [i \in 1..Len(sequences) |->
        [k \in 1..width |->
            IF k <= Len(sequences[i]) THEN sequences[i][k] ELSE pad]]

\* collate_trajectories
collate_trajectories(batch0) ==
    LET batch == sorted_by_length(batch0)
        sequences == [i \in 1..Len(batch) |->
                         [k \in 1..Len(batch[i].deltas) |->
                             <<batch[i].deltas[k][1], batch[i].deltas[k][2],
                               batch[i].dts[k]>>]]
    IN  [starts |-> [i \in 1..Len(batch) |-> batch[i].start],
         ends |-> [i \in 1..Len(batch) |-> batch[i].end],
         sequences |-> pad_sequence(sequences, max_length_of(batch),
                                    <<0, 0, 0>>),
         lengths |-> [i \in 1..Len(batch) |-> batch[i].length]]

\* collate_keystrokes
collate_keystrokes(batch0) ==
    LET batch == sorted_by_length(batch0)
        timings == [i \in 1..Len(batch) |->
                       [k \in 1..Len(batch[i].hold_times) |->
                           <<batch[i].hold_times[k], batch[i].flight_times[k]>>]]
    IN  [char_ids |-> pad_sequence([i \in 1..Len(batch) |-> batch[i].char_ids],
                                   max_length_of(batch), 0),
         sequences |-> pad_sequence(timings, max_length_of(batch), <<0, 0>>),
         lengths |-> [i \in 1..Len(batch) |-> batch[i].length]]

\* The DataLoader collating a list of dataset items
Collate ==
    /\ UNCHANGED <<gen, trainer, env, files, dirs, snap>>
    /\ run.pc = "loaded" /\ run.items # <<>>
    /\ \E n \in 1..BatchSize :
        \E idx \in [1..n -> 1..Len(run.items)] :
            LET batch == [k \in 1..n |-> run.items[idx[k]]]
            IN  run' = [pc |-> "collated", variant |-> run.variant,
                        items |-> run.items, raw |-> run.raw,
                        input |-> batch,
                        batch |-> IF run.variant = "trajectory"
                                  THEN collate_trajectories(batch)
                                  ELSE collate_keystrokes(batch)]

DatasetNext ==
    \/ ProcessTrajectory
    \/ LoadGeneric
    \/ LoadCmuRow
    \/ Augment
    \/ Collate

SpecDataset == DatasetInit /\ [][DatasetNext]_vars

\* The stored items of a dataset, during and after loading
StoredItems == IF run.pc \in {"loading", "loaded", "collated"}
               THEN run.items ELSE <<>>

\* C21: every stored sequence, and so every true length of a batch, has
\* between min_length and max_length steps.
C21_LengthsInRange ==
    \A k \in 1..Len(StoredItems) :
        /\ StoredItems[k].length >= env.config.min_length
        /\ StoredItems[k].length <= env.config.max_length

\* What the datasets do keep: keystroke sequences are in range, and a
\* trajectory has between min_length - 1 and max_length - 1 steps
LengthsInRangeOfPoints ==
    \A k \in 1..Len(StoredItems) :
        LET d == IF run.variant = "trajectory" THEN 1 ELSE 0
        IN  /\ StoredItems[k].length >= env.config.min_length - d
            /\ StoredItems[k].length <= env.config.max_length - d

\* C22: every duration of every stored step is strictly positive: dt of a
\* trajectory step, hold and flight time of a keystroke, for the CMU and
\* the generic layout and for augmented copies.
C22_DurationsPositive ==
    \A k \in 1..Len(StoredItems) :
        IF run.variant = "trajectory"
        THEN \A j \in 1..Len(StoredItems[k].dts) : StoredItems[k].dts[j] > 0
        ELSE \A j \in 1..StoredItems[k].length :
                /\ StoredItems[k].hold_times[j] > 0
                /\ StoredItems[k].flight_times[j] > 0

\* What the datasets do keep: dt is positive, hold and flight are not
\* negative
DurationsNotNegative ==
    \A k \in 1..Len(StoredItems) :
        IF run.variant = "trajectory"
        THEN \A j \in 1..Len(StoredItems[k].dts) : StoredItems[k].dts[j] > 0
        ELSE \A j \in 1..StoredItems[k].length :
                /\ StoredItems[k].hold_times[j] >= 0
                /\ StoredItems[k].flight_times[j] >= 0

\* The steps of a dataset item as rows of a batch hold them
StepsOf(item) ==
    IF run.variant = "trajectory"
    THEN [k \in 1..item.length |->
             <<item.deltas[k][1], item.deltas[k][2], item.dts[k]>>]
    ELSE [k \in 1..item.length |->
             <<item.hold_times[k], item.flight_times[k]>>]

\* Row i of the batch is input item j: context, steps and length
RowIsItem(i, j) ==
    LET item == run.input[j]
        b == run.batch
    IN  /\ b.lengths[i] = item.length
        /\ SubSeq(b.sequences[i], 1, item.length) = StepsOf(item)
        /\ IF run.variant = "trajectory"
           THEN b.starts[i] = item.start /\ b.ends[i] = item.end
           ELSE SubSeq(b.char_ids[i], 1, item.length) = item.char_ids

\* C23: a collated batch has its rows ordered by length, non-increasing;
\* the rows are the input items, each with its own context, steps and
\* length; the padded width is the largest length; everything at or after
\* a row's length is zero.
C23_BatchContract ==
    run.pc = "collated" =>
        LET b == run.batch
            n == Len(run.input)
            width == Len(b.sequences[1])
        IN  /\ Len(b.lengths) = n /\ Len(b.sequences) = n
            /\ \A i \in 1..(n - 1) : b.lengths[i] >= b.lengths[i + 1]
            /\ \E p \in [1..n -> 1..n] :
                  /\ \A i, j \in 1..n : i # j => p[i] # p[j]
                  /\ \A i \in 1..n : RowIsItem(i, p[i])
            /\ width = b.lengths[1]
            /\ \A i \in 1..n :
                  /\ Len(b.sequences[i]) = width
                  /\ b.lengths[i] <= width
                  /\ \A k \in (b.lengths[i] + 1)..width :
                        /\ b.sequences[i][k] =
                              IF run.variant = "trajectory" THEN <<0, 0, 0>>
                              ELSE <<0, 0>>
                        /\ run.variant = "keystroke" => b.char_ids[i][k] = 0

\* A batch of a short item followed by a longer one with another start
C23_Witness ==
    /\ run.pc = "collated" /\ run.variant = "trajectory"
    /\ Len(run.input) >= 2
    /\ run.input[1].length < run.input[2].length
    /\ run.input[1].start # run.input[2].start
    /\ run.batch.sequences[2][run.batch.lengths[1]] = <<0, 0, 0>>

(***************************************************************************)
(* Amortised gradient penalty of train_discriminator_step: the counter     *)
(* d_step, the test on it, and the penalty term of the critic loss.        *)
(***************************************************************************)
\* "gp_every_n = max(1, self.config.gp_every_n)"
gp_every_n_of(config) == IF config.gp_every_n < 1 THEN 1 ELSE config.gp_every_n

\* "do_gp = self.d_step % gp_every_n == 0", read before "self.d_step += 1"
do_gp_after_increment(d_step, gp_every_n) == (d_step + 1) % gp_every_n = 0
do_gp(d_step, gp_every_n) == d_step % gp_every_n = 0

\* "gp_batch_size = max(1, int(math.ceil(batch_size * gp_batch_frac)))" with
\* gp_batch_frac = num / 4 clamped to [0, 1]
gp_batch_size(batch_size, frac) ==
    LET num == IF frac < 0 THEN 0 ELSE IF frac > 4 THEN 4 ELSE frac
        rows == (batch_size * num + 3) \div 4
    IN  IF rows < 1 THEN 1 ELSE rows

\* Values of compute_gradient_penalty(...), and of
\* config.gradient_penalty_weight
PenaltyValues == {0, 3}
gradient_penalty_weight == 10

\* A fresh Trainer (lines 72-75) at the start of Trainer.train
PenaltyInit ==
    /\ gen = [pc |-> "none"] /\ files = <<>> /\ dirs = {} /\ snap = <<>>
    /\ \E n \in {-1, 0, 1, 2, 3}, nc \in {1, 2}, frac \in {-1, 1, 4, 5} :
        trainer = [epoch |-> 0, d_step |-> 0,
                   config |-> [gp_every_n |-> n, n_critic |-> nc,
                               gp_batch_frac |-> frac]]
    /\ \E nb \in 1..MaxBatches :
        env = [num_epochs |-> MaxEpoch, num_batches |-> nb]
    /\ run = [pc |-> "critic", batch |-> 1, critic |-> 0, critic_updates |-> 0,
              counter |-> 0, computed |-> FALSE, gp_rows |-> 0, gp |-> 0,
              penalty_term |-> 0]

\* train_discriminator_step (lines 135-181) in the loop of train_epoch
PenaltyCriticStep ==
    /\ UNCHANGED <<gen, env, files, dirs, snap>>
    /\ run.pc = "critic" /\ run.critic < trainer.config.n_critic
    /\ \E penalty \in PenaltyValues :
        LET computed == do_gp(trainer.d_step, gp_every_n_of(trainer.config))
            gp == IF computed THEN penalty ELSE 0
        IN  /\ trainer' = [trainer EXCEPT !.d_step = trainer.d_step + 1]
            /\ run' = [run EXCEPT
                  !.critic = run.critic + 1,
                  !.critic_updates = run.critic_updates + 1,
                  !.counter = trainer.d_step,
                  !.computed = computed,
                  !.gp_rows = IF computed
                              THEN gp_batch_size(BatchSize,
                                       trainer.config.gp_batch_frac)
                              ELSE 0,
                  !.gp = gp,
                  !.penalty_term = gradient_penalty_weight * gp]

\* train_generator_step and the step of "for batch in dataloader"
PenaltyGeneratorStep ==
    /\ UNCHANGED <<gen, trainer, env, files, dirs, snap>>
    /\ run.pc = "critic" /\ run.critic >= trainer.config.n_critic
    /\ run' = [run EXCEPT
                 !.critic = 0,
                 !.batch = IF run.batch < env.num_batches
                           THEN run.batch + 1 ELSE run.batch,
                 !.pc = IF run.batch < env.num_batches
                        THEN "critic" ELSE "epoch_end"]

\* The rest of the epoch in Trainer.train, and the next epoch
PenaltyNextEpoch ==
    /\ UNCHANGED <<gen, env, files, dirs, snap>>
    /\ run.pc = "epoch_end"
    /\ trainer.epoch + 1 < env.num_epochs
    /\ trainer' = [trainer EXCEPT !.epoch = trainer.epoch + 1]
    /\ run' = [run EXCEPT !.pc = "critic", !.batch = 1, !.critic = 0]

PenaltyNext ==
    \/ PenaltyCriticStep
    \/ PenaltyGeneratorStep
    \/ PenaltyNextEpoch

SpecPenalty == PenaltyInit /\ [][PenaltyNext]_vars

\* max(1, gp_every_n) of the configuration
PenaltyPeriod ==
    IF trainer.config.gp_every_n > 1 THEN trainer.config.gp_every_n ELSE 1

\* C24: d_step counts the critic updates from 0, one per update across
\* batches and epochs; the update with counter value k computes the
\* gradient penalty if and only if k % max(1, gp_every_n) = 0, and adds a
\* penalty term of exactly 0 to the critic loss otherwise.
C24_AmortizedPenalty ==
    /\ trainer.d_step = run.critic_updates
    /\ run.critic_updates > 0 =>
          /\ run.counter = run.critic_updates - 1
          /\ run.computed <=> (run.counter % PenaltyPeriod = 0)
          /\ run.computed => run.gp_rows \in 1..BatchSize
          /\ ~run.computed => run.penalty_term = 0 /\ run.gp = 0

\* In the second epoch, with gp_every_n = 3, the second critic update of a
\* batch skipped the penalty (its counter value is 1 more than a multiple
\* of 3)
C24_Witness ==
    /\ trainer.epoch = 1
    /\ trainer.config.gp_every_n = 3
    /\ ~run.computed /\ run.counter % 3 = 1
    /\ run.critic = 2

(***************************************************************************)
(* Teacher forcing and latent noise of the two training steps: the ratio   *)
(* each step hands to Generator.forward, the draws forward makes with it,  *)
(* and the torch.randn call of each step.                                  *)
(***************************************************************************)
\* "torch.rand(1).item() < teacher_forcing_ratio" with a target, the ratio
\* being a float in thousandths and the draw lying in [0, 1)
ForcedDraws(ratio) ==
    IF ~FLess(Num(0, 1), ratio) THEN {FALSE}
    ELSE IF ~FLess(ratio, Num(1000, 1)) THEN {TRUE}
    ELSE {TRUE, FALSE}

\* "teacher_forcing_ratio=0.0" of train_discriminator_step (line 112)
d_step_ratio_scheduled(t) == get_teacher_forcing_ratio(t)
d_step_ratio(t) == Num(0, 1)

\* "tf_ratio = self.get_teacher_forcing_ratio()" of train_generator_step
g_step_ratio(t) == get_teacher_forcing_ratio(t)

\* A fresh Trainer in the first epoch of Trainer.train
ForcingInit ==
    /\ gen = [pc |-> "none"] /\ files = <<>> /\ dirs = {} /\ snap = <<>>
    /\ \E st \in RatioValues, en \in RatioValues, de \in DecayValues,
          nc \in {1, 2} :
        trainer = [epoch |-> 0,
                   config |-> [teacher_forcing_start |-> st,
                               teacher_forcing_end |-> en,
                               teacher_forcing_decay_epochs |-> de,
                               n_critic |-> nc]]
    /\ \E nb \in 1..MaxBatches, width \in 1..MaxWidth :
        env = [num_epochs |-> MaxEpoch, num_batches |-> nb, width |-> width]
    /\ run = [pc |-> "critic", batch |-> 1, critic |-> 0,
              updates |-> 0, randn_calls |-> 0,
              step |-> "none", at_epoch |-> 0, z |-> 0, ratio |-> Num(0, 1),
              forced |-> <<>>, g_ratios |-> {}]

\* train_discriminator_step (lines 103-113): z, then the fake batch under
\* no_grad with the targets and teacher_forcing_ratio = 0.0
ForcingCriticStep ==
    /\ UNCHANGED <<gen, trainer, env, files, dirs, snap>>
    /\ run.pc = "critic" /\ run.critic < trainer.config.n_critic
    /\ \E z \in Latents :
       \E forced \in [1..env.width -> ForcedDraws(d_step_ratio(trainer))] :
        run' = [run EXCEPT
                  !.critic = run.critic + 1,
                  !.updates = run.updates + 1,
                  !.randn_calls = run.randn_calls + 1,
                  !.step = "critic",
                  !.at_epoch = trainer.epoch,
                  !.z = z,
                  !.ratio = d_step_ratio(trainer),
                  !.forced = forced]

\* train_generator_step (lines 209-223): z, tf_ratio, the fake batch
ForcingGeneratorStep ==
    /\ UNCHANGED <<gen, trainer, env, files, dirs, snap>>
    /\ run.pc = "critic" /\ run.critic >= trainer.config.n_critic
    /\ \E z \in Latents :
       \E forced \in [1..env.width -> ForcedDraws(g_step_ratio(trainer))] :
        run' = [run EXCEPT
                  !.critic = 0,
                  !.updates = run.updates + 1,
                  !.randn_calls = run.randn_calls + 1,
                  !.step = "generator",
                  !.at_epoch = trainer.epoch,
                  !.z = z,
                  !.ratio = g_step_ratio(trainer),
                  !.forced = forced,
                  !.g_ratios = run.g_ratios \cup {g_step_ratio(trainer)},
                  !.batch = IF run.batch < env.num_batches
                            THEN run.batch + 1 ELSE run.batch,
                  !.pc = IF run.batch < env.num_batches
                         THEN "critic" ELSE "epoch_end"]

\* "self.epoch = epoch" of the next epoch of Trainer.train
ForcingNextEpoch ==
    /\ UNCHANGED <<gen, env, files, dirs, snap>>
    /\ run.pc = "epoch_end"
    /\ trainer.epoch + 1 < env.num_epochs
    /\ trainer' = [trainer EXCEPT !.epoch = trainer.epoch + 1]
    /\ run' = [run EXCEPT !.pc = "critic", !.batch = 1, !.critic = 0,
                          !.g_ratios = {}]

ForcingNext ==
    \/ ForcingCriticStep
    \/ ForcingGeneratorStep
    \/ ForcingNextEpoch

SpecForcing == ForcingInit /\ [][ForcingNext]_vars

\* The ratio of epoch e under the Trainer's configuration
RatioOfEpoch(e) == get_teacher_forcing_ratio([trainer EXCEPT !.epoch = e])

\* C25: a critic update builds its fake batch with ratio 0 and no decode
\* step fed a ground-truth step; a generator update of epoch e uses
\* get_teacher_forcing_ratio at e, the same for every batch of the epoch;
\* each update makes its own draw of latent noise.
C25_ForcingPerStep ==
    /\ run.step = "critic" =>
          /\ run.ratio = Num(0, 1)
          /\ \A t \in DOMAIN run.forced : ~run.forced[t]
    /\ run.step = "generator" => run.ratio = RatioOfEpoch(run.at_epoch)
    /\ \A r \in run.g_ratios : r = RatioOfEpoch(trainer.epoch)
    /\ Cardinality(run.g_ratios) <= 1
    /\ run.randn_calls = run.updates
    /\ Len(run.forced) = IF run.step = "none" THEN 0 ELSE env.width

\* In the second epoch, with a ratio strictly between 0 and 1, the
\* generator update of the second batch drew z = 1 and fed a ground-truth
\* step
C25_Witness ==
    /\ trainer.epoch = 1 /\ run.at_epoch = 1
    /\ run.step = "generator" /\ run.batch = 2 /\ run.pc = "epoch_end"
    /\ FLess(Num(0, 1), run.ratio) /\ FLess(run.ratio, Num(1000, 1))
    /\ \E t \in DOMAIN run.forced : run.forced[t]
    /\ run.z = 1

(***************************************************************************)
(* The running position of the trajectory Generator.forward under teacher  *)
(* forcing.                                                                *)
(***************************************************************************)
\* A running sum of the ground-truth (dx, dy) kept from step to step:
\* cache[n] = cache[n - 1] + target[n], cache[0] = start
RECURSIVE CachedRunningSum(_, _, _)
CachedRunningSum(start, target, n) ==
    IF n = 0 THEN start
    ELSE LET before == CachedRunningSum(start, target, n - 1)
         IN  <<before[1] + target[n][1], before[2] + target[n][2]>>

\* start plus the sum of the ground-truth (dx, dy) of the first n steps
TargetSum(start, target, n) ==
    <<start[1] + SumSeq([k \in 1..n |-> target[k][1]]),
      start[2] + SumSeq([k \in 1..n |-> target[k][2]])>>

\* C26: in the trajectory forward, after a teacher-forced step t the running
\* position is start plus the sum of the ground-truth deltas of steps 0..t
\* (the value of an incrementally cached running sum), whatever was
\* generated before; after any other step it is the previous position plus
\* the delta just generated; the step after it is decoded from that
\* position.
C26_ForcedPosition ==
    [][(gen.pc = "forward" /\ gen'.pc = "forward" /\ gen'.t = gen.t + 1
        /\ gen.variant = "trajectory")
       => \A i \in DOMAIN gen.state :
            LET s == gen.state[i]
                s1 == gen'.state[i]
                c == gen.context[i]
                out == s1.outputs[gen'.t]
            IN  /\ out = decode(gen.w, s.h, s.input, c.condition, s.pos,
                                c.end).output
                /\ IF gen'.forced[gen'.t]
                   THEN /\ s1.pos = TargetSum(c.start, gen.target[i], gen'.t)
                        /\ s1.pos = CachedRunningSum(c.start, gen.target[i],
                                                     gen'.t)
                   ELSE s1.pos = <<s.pos[1] + out[1], s.pos[2] + out[2]>>]_vars

\* A forward with targets whose first step was generated, with a delta
\* other than the ground truth's, and whose second step was teacher-forced,
\* followed by a generated third step
C26_Witness ==
    /\ gen.pc = "forward" /\ gen.variant = "trajectory" /\ gen.has_target
    /\ gen.t = 3
    /\ gen.forced = <<FALSE, TRUE, FALSE>>
    /\ \E i \in DOMAIN gen.state :
        /\ <<gen.state[i].outputs[1][1], gen.state[i].outputs[1][2]>>
              # <<gen.target[i][1][1], gen.target[i][1][2]>>
        /\ gen.state[i].pos # TargetSum(gen.context[i].start, gen.target[i], 3)

(***************************************************************************)
(* best_loss over a run of Trainer.train                                   *)
(***************************************************************************)
\* The run of train is between its entry and its return
InTrain == run.pc \in {"epoch_begin", "critic", "epoch_end", "finished"}

\* C27: in a run of train best_loss never increases; at the end of every
\* epoch it is the minimum of its value when train started and the
\* combined losses of the epochs run so far; an epoch whose combined loss
\* is NaN or equal to best_loss is a non-improving one and leaves best_loss
\* as it was.
C27_BestLossMinimum ==
    /\ []((InTrain /\ run.pc # "epoch_end" /\ run.pc # "critic")
            => trainer.best_loss
                  = LowerOf(run.best_at_start, run.lowest_combined))
    /\ [][(InTrain /\ run'.pc # "idle")
            => /\ ~FLess(trainer.best_loss, trainer'.best_loss)
               /\ trainer'.best_loss.kind # "nan"
               /\ (run.pc = "epoch_end"
                     /\ (combined_loss.kind = "nan"
                           \/ FEq(combined_loss, trainer.best_loss)))
                  => /\ trainer'.best_loss = trainer.best_loss
                     /\ ~run'.is_best
                     /\ trainer'.patience_counter
                           = trainer.patience_counter + 1]_vars

\* A resumed run that started from a restored best_loss, improved on it,
\* and then ran an epoch whose combined loss was NaN
C27_Witness ==
    /\ run.pc = "finished" /\ run.calls = 2
    /\ run.best_at_start.kind = "num"
    /\ FLess(trainer.best_loss, run.best_at_start)
    /\ combined_loss.kind = "nan"
    /\ trainer.patience_counter >= 1

\* A run in which an epoch's combined loss equalled best_loss
C27_WitnessEqual ==
    /\ run.pc = "finished"
    /\ FEq(combined_loss, trainer.best_loss)
    /\ ~run.is_best

(***************************************************************************)
(* Resuming: a run of train, then a new process started with its own       *)
(* number of epochs that loads one of the checkpoints and trains.          *)
(***************************************************************************)
\* A new process as NewProcess, with the --epochs of its command line
Relaunch ==
    /\ run.pc = "returned"
    /\ run.calls < env.max_calls
    /\ \E gw \in {0, 1}, dw \in {1, 2} :
           trainer' = NewTrainer(gw, dw, trainer.config)
    /\ \E ne \in {1, 2, 3} : env' = [env EXCEPT !.num_epochs = ne]
    /\ run' = [pc |-> "idle", calls |-> run.calls]
    /\ UNCHANGED <<gen, files, dirs, snap>>

RelaunchNext ==
    \/ Train
    \/ EpochBegin
    \/ DiscriminatorStep
    \/ GeneratorStep
    \/ EpochEnd
    \/ TrainReturn
    \/ Relaunch
    \/ LoadCheckpoint

RelaunchInit == TrainInitWith({1}, {1}, {2, 3}, {DefaultDir}, 2)
SpecRelaunch == RelaunchInit /\ [][RelaunchNext]_vars

\* The epoch indices first, first + 1, ..., last
EpochRange(first, last) ==
    [k \in 1..(IF last >= first THEN last - first + 1 ELSE 0) |->
        first + k - 1]

\* Every checkpoint file stores the epoch index during which it was written,
\* and a Trainer that loaded one stands at that index
StoresEpochOfWrite ==
    /\ \A path \in DOMAIN files : files[path].epoch = snap[path].epoch
    /\ run.pc = "epoch_begin" \/ run.pc = "finished" =>
          \A k \in 1..Len(run.written) :
              files[run.written[k]].epoch = run.executed[Len(run.executed)]
    /\ run.pc = "loaded" => trainer.epoch = files[run.loaded].epoch

\* C28 as stated: a train that has returned after load_checkpoint of a
\* checkpoint of epoch e has executed e, e + 1, ..., num_epochs - 1.
C28_ResumeRunsToLastEpoch ==
    /\ StoresEpochOfWrite
    /\ (run.pc = "returned" /\ run.resumed) =>
          run.executed = EpochRange(run.first_epoch, env.num_epochs - 1)

\* C28: a checkpoint written during epoch e stores epoch = e; train after
\* load_checkpoint of it executes e, e + 1, ... in order and without gaps,
\* up to num_epochs - 1 or to the epoch at which early stopping leaves the
\* loop; with e >= num_epochs it executes no epoch and returns.
C28_ResumeFromStoredEpoch ==
    /\ StoresEpochOfWrite
    /\ (InTrain \/ run.pc = "returned") /\ run.resumed =>
          /\ run.pc # "raised"
          /\ run.executed
                = EpochRange(run.first_epoch,
                             run.first_epoch + Len(run.executed) - 1)
          /\ \A k \in 1..Len(run.executed) :
                run.executed[k] <= env.num_epochs - 1
          /\ run.pc \in {"critic", "epoch_end"} =>
                trainer.epoch = run.executed[Len(run.executed)]
          /\ run.pc \in {"finished", "returned"} =>
                \/ run.executed
                      = EpochRange(run.first_epoch, env.num_epochs - 1)
                \/ /\ run.early_stop
                   /\ trainer.patience_counter >= trainer.config.patience
                   /\ run.executed # <<>>
          /\ run.first_epoch >= env.num_epochs => run.executed = <<>>

\* A resumed train that returned after running epoch 1 again and then
\* epoch 2, the checkpoint of epoch 1 having been loaded
C28_Witness ==
    /\ run.pc = "returned" /\ run.resumed
    /\ run.first_epoch = 1
    /\ run.executed = <<1, 2>>
    /\ env.num_epochs = 3

\* A resumed train that returned without running an epoch
C28_WitnessNoEpoch ==
    /\ run.pc = "returned" /\ run.resumed
    /\ run.first_epoch >= env.num_epochs
    /\ run.executed = <<>>

(***************************************************************************)
(* What load_checkpoint writes: a Trainer with all the state of            *)
(* Trainer.__init__ (optimizers with their learning rate, schedulers,      *)
(* counters), trained for some epochs, checkpointed, and a checkpoint      *)
(* loaded into it or into the fresh Trainer of a new process.              *)
(***************************************************************************)
\* The epochs run in all, over the processes
MaxLoadEpochs == 3

\* torch.optim.Adam(..., lr=config.learning_rate)
NewAdam(config) == [steps |-> 0, lr |-> config.learning_rate]

\* ReduceLROnPlateau(optimizer, ...): the state the scheduler itself holds
\* (the learning rate is the optimizer's)
NewPlateau == [best |-> Inf, num_bad_epochs |-> 0]

\* Trainer.__init__, lines 38-75
TrainerOf(gw, dw, config) ==
    [generator |-> gw,
     discriminator |-> dw,
     config |-> config,
     g_optimizer |-> NewAdam(config),
     d_optimizer |-> NewAdam(config),
     g_scheduler |-> NewPlateau,
     d_scheduler |-> NewPlateau,
     best_loss |-> Inf,
     patience_counter |-> 0,
     epoch |-> 0,
     d_step |-> 0]

\* The configurations of the processes
LoadConfigs ==
    [n_critic : {1, 2}, patience : {1, 2}, learning_rate : {8},
     lr_factor : {[num |-> 1, den |-> 2]}, lr_patience : {0}, min_lr : {3}]

\* scheduler.step(metric) on the scheduler and its optimizer
plateau_step(optimizer, scheduler, config, metric) ==
    LET s == ReduceLROnPlateau_step(
                 [lr |-> optimizer.lr, best |-> scheduler.best,
                  num_bad_epochs |-> scheduler.num_bad_epochs],
                 config, metric)
    IN  [optimizer |-> [optimizer EXCEPT !.lr = s.lr],
         scheduler |-> [best |-> s.best,
                        num_bad_epochs |-> s.num_bad_epochs]]

\* One iteration of the loop of Trainer.train on a one-batch dataloader, as
\* far as the Trainer's state goes (lines 433-457)
train_iteration(t, epoch, metrics) ==
    LET nc == CriticSteps(t.config)
        g == plateau_step([t.g_optimizer EXCEPT !.steps = @ + 1],
                          t.g_scheduler, t.config,
                          g_scheduler_metric(metrics))
        d == plateau_step([t.d_optimizer EXCEPT !.steps = @ + nc],
                          t.d_scheduler, t.config,
                          d_scheduler_metric(metrics))
        combined == FAdd(metrics.d_loss, metrics.g_loss)
        is_best == IsBest(combined, t.best_loss)
    IN  [trainer |-> [t EXCEPT
            !.epoch = epoch,
            !.generator = optimizer_step(t.generator),
            !.discriminator = IF nc = 2
                              THEN optimizer_step(optimizer_step(
                                       t.discriminator))
                              ELSE optimizer_step(t.discriminator),
            !.d_step = t.d_step + nc,
            !.g_optimizer = g.optimizer,
            !.d_optimizer = d.optimizer,
            !.g_scheduler = g.scheduler,
            !.d_scheduler = d.scheduler,
            !.best_loss = IF is_best THEN combined ELSE t.best_loss,
            !.patience_counter = IF is_best THEN 0
                                 ELSE t.patience_counter + 1],
         is_best |-> is_best]

\* The first process: Trainer(generator, discriminator, config, ...)
LoadInit ==
    /\ gen = [pc |-> "none"] /\ dirs = {DefaultDir}
    /\ files = <<>> /\ snap = <<>>
    /\ env = [num_epochs |-> MaxLoadEpochs]
    /\ \E config \in LoadConfigs : trainer = TrainerOf(0, 1, config)
    /\ run = [pc |-> "ready", fresh |-> TRUE, epochs_run |-> 0]

\* One epoch of Trainer.train and the checkpoint it writes
LoadTrainEpoch ==
    /\ UNCHANGED <<gen, env, dirs>>
    /\ run.pc \in {"ready", "loaded", "training"}
    /\ run.epochs_run < MaxLoadEpochs
    /\ LET epoch == IF run.pc = "training" THEN trainer.epoch + 1
                    ELSE trainer.epoch
       IN  /\ epoch < env.num_epochs
           /\ \E g_loss \in EpochLossValues, d_loss \in EpochLossValues :
               LET it == train_iteration(trainer, epoch,
                             [g_loss |-> g_loss, d_loss |-> d_loss])
                   saved == IF ShouldSave(epoch, it.is_best)
                            THEN save_checkpoint(files, dirs, it.trainer,
                                     checkpoint_path(DefaultDir, epoch),
                                     it.is_best)
                            ELSE [files |-> files, written |-> <<>>,
                                  raised |-> FALSE]
                   stop == EarlyStop(it.trainer.patience_counter,
                                     trainer.config)
               IN  /\ trainer' = it.trainer
                   /\ files' = saved.files
                   /\ snap' = Snapshot(snap, saved.written, it.trainer)
                   /\ run' = [pc |-> IF stop \/ epoch + 1 >= env.num_epochs
                                     THEN "returned" ELSE "training",
                              fresh |-> FALSE,
                              epochs_run |-> run.epochs_run + 1]

\* A new process with its own configuration: fresh networks, fresh Trainer
LoadNewTrainer ==
    /\ UNCHANGED <<gen, env, files, dirs, snap>>
    /\ run.pc = "returned"
    /\ \E config \in LoadConfigs : trainer' = TrainerOf(1, 2, config)
    /\ run' = [pc |-> "ready", fresh |-> TRUE, epochs_run |-> run.epochs_run]

\* trainer.load_checkpoint(path), on the fresh Trainer of a process or on
\* the Trainer that has just trained
LoadInto ==
    /\ UNCHANGED <<gen, env, files, dirs, snap>>
    /\ run.pc \in {"ready", "returned"}
    /\ \E path \in DOMAIN files :
        /\ trainer' = load_checkpoint(trainer, files[path])
        /\ run' = [pc |-> "loaded", fresh |-> run.fresh,
                   epochs_run |-> run.epochs_run,
                   path |-> path, before |-> trainer]

LoadNext ==
    \/ LoadTrainEpoch
    \/ LoadNewTrainer
    \/ LoadInto

SpecLoad == LoadInit /\ [][LoadNext]_vars

\* C29: load_checkpoint overwrites exactly epoch, the generator and critic
\* parameters, both optimizer states and best_loss, and leaves the patience
\* counter, d_step, both scheduler states and the config as they were: on
\* a fresh Trainer the patience counter and the gradient-penalty phase are 0
\* whatever they were when the checkpoint was written.
C29_LoadOverwrites ==
    run.pc = "loaded" =>
        LET checkpoint == files[run.path]
            before == run.before
        IN  /\ trainer.epoch = checkpoint.epoch
            /\ trainer.generator = checkpoint.generator_state_dict
            /\ trainer.discriminator = checkpoint.discriminator_state_dict
            /\ trainer.g_optimizer = checkpoint.g_optimizer_state_dict
            /\ trainer.d_optimizer = checkpoint.d_optimizer_state_dict
            /\ trainer.best_loss = checkpoint.best_loss
            /\ trainer.patience_counter = before.patience_counter
            /\ trainer.d_step = before.d_step
            /\ trainer.g_scheduler = before.g_scheduler
            /\ trainer.d_scheduler = before.d_scheduler
            /\ trainer.config = before.config
            /\ DOMAIN trainer
                  = {"epoch", "generator", "discriminator", "g_optimizer",
                     "d_optimizer", "best_loss", "patience_counter",
                     "d_step", "g_scheduler", "d_scheduler", "config"}
            /\ run.fresh =>
                  /\ trainer.patience_counter = 0
                  /\ trainer.d_step = 0
                  /\ trainer.g_scheduler = NewPlateau
                  /\ trainer.d_scheduler = NewPlateau

\* A fresh Trainer of another configuration has loaded a checkpoint that
\* was written with a positive patience counter, a gradient-penalty phase
\* other than 0, a stepped scheduler and a reduced learning rate
C29_Witness ==
    /\ run.pc = "loaded" /\ run.fresh
    /\ snap[run.path].patience_counter > 0
    /\ snap[run.path].d_step % 2 = 1
    /\ snap[run.path].g_scheduler # NewPlateau
    /\ snap[run.path].config # trainer.config
    /\ trainer.g_optimizer.lr < trainer.config.learning_rate
    /\ trainer.d_step = 0 /\ trainer.patience_counter = 0

(***************************************************************************)
(* The fixed-length run of the export and the early-stopping generate on   *)
(* the same weights, start, end and z, one after the other (eval mode:     *)
(* the networks are functions of their inputs).                            *)
(***************************************************************************)
\* The inputs of the two calls
PrefixInit ==
    /\ trainer = [epoch |-> 0] /\ env = [num_epochs |-> 0]
    /\ files = <<>> /\ dirs = {} /\ snap = <<>>
    /\ gen = [pc |-> "none"]
    /\ \E w \in Weights, th \in Thresholds,
          start \in [Batch -> StartPoints], end \in [Batch -> EndPoints],
          z \in [Batch -> Latents] :
        run = [pc |-> "inputs", w |-> w, distance_threshold |-> th,
               start |-> start, end |-> end, z |-> z,
               exported |-> <<>>]

\* GeneratorWrapper.forward: "self.generator(start, end, z)" up to the loop
\* of Generator.forward (lines 108-128)
PrefixExport ==
    /\ UNCHANGED <<trainer, env, files, dirs, snap>>
    /\ run.pc = "inputs"
    /\ run' = [run EXCEPT !.pc = "exporting"]
    /\ gen' = [pc |-> "forward",
               variant |-> "trajectory",
               w |-> run.w,
               teacher_forcing_ratio |-> 0,
               has_target |-> FALSE,
               has_lengths |-> FALSE,
               width |-> MaxGenSteps,
               lengths |-> <<>>,
               context |-> [i \in Batch |->
                   [start |-> run.start[i], end |-> run.end[i],
                    condition |-> compute_condition(run.w, run.start[i],
                                                    run.end[i], run.z[i])]],
               target |-> [i \in Batch |-> <<>>],
               max_len |-> MaxGenSteps,
               state |-> [i \in Batch |->
                   ForwardState("trajectory", run.start[i])],
               forced |-> <<>>,
               t |-> 0,
               returned_lengths |-> <<>>]

\* The export's output is kept, and Generator.generate(start, end, z) is
\* called with the same arguments, up to its loop (lines 192-213)
PrefixGenerate ==
    /\ UNCHANGED <<trainer, env, files, dirs, snap>>
    /\ run.pc = "exporting" /\ gen.pc = "forward_returned"
    /\ run' = [run EXCEPT
                 !.pc = "generating",
                 !.exported = [i \in Batch |-> gen.state[i].outputs]]
    /\ gen' = [pc |-> "loop",
               w |-> run.w,
               distance_threshold |-> run.distance_threshold,
               start |-> run.start,
               end |-> run.end,
               condition |-> [i \in Batch |->
                   compute_condition(run.w, run.start[i], run.end[i],
                                     run.z[i])],
               h |-> [i \in Batch |-> 0],
               current_input |-> [i \in Batch |-> initial_input],
               current_pos |-> run.start,
               done |-> [i \in Batch |-> FALSE],
               lengths |-> [i \in Batch |-> 0],
               outputs |-> [i \in Batch |-> <<>>],
               t |-> 0]

PrefixNext ==
    \/ PrefixExport
    \/ ForwardStep
    \/ ForwardReturn
    \/ PrefixGenerate
    \/ GenerateStep
    \/ GenerateReturn

SpecPrefix == PrefixInit /\ [][PrefixNext]_vars

\* C30: the steps generate has emitted are the first steps of the
\* fixed-length output for the same inputs, so the fixed-length output
\* trimmed to a sequence's early-stopping length is what generate returns
\* for that sequence.
C30_CommonPrefix ==
    run.pc = "generating" =>
        \A i \in Batch :
            /\ Len(run.exported[i]) = MaxGenSteps
            /\ Len(gen.outputs[i]) <= MaxGenSteps
            /\ \A k \in 1..Len(gen.outputs[i]) :
                  run.exported[i][k] = gen.outputs[i][k]
            /\ gen.pc = "returned" =>
                  SubSeq(run.exported[i], 1, gen.lengths[i])
                     = SubSeq(gen.outputs[i], 1, gen.lengths[i])

\* generate returned fewer steps than the export holds, for sequences that
\* stopped at different steps
C30_Witness ==
    /\ run.pc = "generating" /\ gen.pc = "returned"
    /\ Len(gen.outputs[1]) < MaxGenSteps
    /\ Len(gen.outputs[1]) >= 2
    /\ \E i, j \in Batch : gen.lengths[i] < gen.lengths[j]
    /\ \E i \in Batch : run.start[i] # <<0, 0>>

=============================================================================
